---- MODULE Spec2Model ----
(***************************************************************************)
(* The godynamo driver: the transaction coordinator of one connection      *)
(* (Conn in conn.go: BeginTx, executeContext, commit, rollback), the       *)
(* result cursor of a query (ResultResultSet in stmt.go), the table        *)
(* statements (stmt_table.go) and the statement parser (parseQuery and     *)
(* parseWithOpts in stmt.go), with the remote executor as a                *)
(* nondeterministic responder.                                             *)
(*                                                                         *)
(* Handlers are split into steps at the places where another goroutine     *)
(* can observe or change shared state: commit and rollback hold c.lock     *)
(* between their steps, executeContext takes no lock at all; Next holds    *)
(* r.mu from its Lock to its Unlock only.                                  *)
(*                                                                         *)
(* Option values (Go pointers, nil-able slices, errors) are sequences of   *)
(* length at most one: <<>> is nil.                                        *)
(***************************************************************************)
EXTENDS Integers, Sequences, FiniteSets, TLC

VARIABLES
    tx,          \* c.tx: <<>> (nil) or <<"Tx">>
    txMode,      \* c.txMode
    txStmtList,  \* c.txStmtList: sequence of references (indices into heap)
    lock,        \* c.lock: <<>> or <<p>>, the goroutine holding it
    heap,        \* the live txStmt objects, by reference: <<>> is a free reference
    numCalls,    \* number of calls made on c.client
    pc,          \* per goroutine: the step it is at
    local,       \* per goroutine: the locals of the handler it is in
    ret,         \* per goroutine: what its last completed handler returned and sent
    signalled,   \* history: the executes that returned ErrInTx since the last
                 \* successful BeginTx, in return order
    pages,       \* the remote source of a query: its pages, each a sequence of rows
    rs,          \* the cursor (ResultResultSet): err, read, items and its statement
    mu,          \* r.mu: <<>> or <<p>>, the goroutine holding it
    requests,    \* history: the continuation tokens the cursor sent, in order
    contexts,    \* history: the contexts of the calls made for the query, in order
    delivered,   \* history: the rows Next returned, in return order
    npc,         \* per goroutine: the step of Next it is at
    nloc,        \* per goroutine: the locals of its Next call
    nret,        \* per goroutine: what its last completed Next returned
    tables,      \* the remote store: the names of the tables that exist
    ddlRet,      \* what the last table statement sent and returned
    query,       \* the text given to the parser
    parsed       \* what the parser made of it

connVars == <<tx, txMode, txStmtList, lock, heap, numCalls, pc, local, ret, signalled>>

cursorVars == <<pages, rs, mu, requests, contexts, delivered, npc, nloc, nret>>

ddlVars == <<tables, ddlRet>>

parseVars == <<query, parsed>>

vars == <<connVars, cursorVars, ddlVars, parseVars>>

-----------------------------------------------------------------------------
(* Bounds *)

MaxStmts == 3

MaxCalls == 2

Procs == {"g1", "g2"}

Main == "g1"

Refs == 1..MaxStmts

\* the (statement, bound values) pairs the callers execute; a Go channel is a value
\* the codec cannot convert
Inputs == { [stmt |-> "INSERT", values |-> <<"v1", "v2">>],
            [stmt |-> "UPDATE", values |-> <<"v2">>],
            [stmt |-> "DELETE", values |-> <<"v1", "chan">>] }

\* the pairs executed when several goroutines use the connection
ConcInputs == { [stmt |-> "INSERT", values |-> <<"v1", "v2">>] }

-----------------------------------------------------------------------------
(* Program constants *)

txNone == 0

txStarted == 1

txCommitting == 2

txRollingBack == 3

NoErr == <<>>

ErrInTx == <<"ErrInTx">>

ErrInvalidTxStage == <<"ErrInvalidTxStage">>

ErrNoTx == <<"ErrNoTx">>

ErrTxCommitting == <<"ErrTxCommitting">>

ErrTxRollingBack == <<"ErrTxRollingBack">>

RemoteErr == <<"RemoteErr">>

-----------------------------------------------------------------------------
(* The value codec *)

Marshallable(v) == v # "chan"

ToAttributeValue(v) == <<"AV", v>>

\* index of the first value whose conversion fails, 0 when all convert
RECURSIVE FirstBadFrom(_, _)
FirstBadFrom(values, j) ==
    IF j > Len(values) THEN 0
    ELSE IF ~Marshallable(values[j]) THEN j
    ELSE FirstBadFrom(values, j + 1)

\* a plausible slip: the failing value is named by its index in the slice, from 0
FirstBad_ZeroBased(values) ==
    IF FirstBadFrom(values, 1) = 0 THEN 0 ELSE FirstBadFrom(values, 1) - 1

FirstBad(values) == FirstBadFrom(values, 1)

ParamsOf(values) == [j \in 1..Len(values) |-> ToAttributeValue(values[j])]

-----------------------------------------------------------------------------
(* Records *)

NewTxStmt(stmt, values) == [stmt |-> stmt, values |-> values, output |-> <<>>]

LocalInit == [stmt |-> "", values |-> <<>>, ref |-> 0, snap |-> <<>>, n |-> 0,
              err |-> NoErr, out |-> <<>>, sent |-> <<>>]

RetInit == [op |-> "", err |-> NoErr, ref |-> 0, n |-> 0, sent |-> <<>>]

\* what a handler returned: its error, the txStmt its result closure captured (ref),
\* the number of queued statements it handled (n) and the request it sent, if any
Return(op, err, ref, n) == [op |-> op, err |-> err, ref |-> ref, n |-> n, sent |-> <<>>]

ReturnSent(op, err, n, request) ==
    [op |-> op, err |-> err, ref |-> 0, n |-> n, sent |-> <<request>>]

ConnInit ==
    /\ tx = <<>>
    /\ txMode = txNone
    /\ txStmtList = <<>>
    /\ lock = <<>>
    /\ heap = [r \in Refs |-> <<>>]
    /\ numCalls = 0
    /\ pc = [p \in Procs |-> "idle"]
    /\ local = [p \in Procs |-> LocalInit]
    /\ ret = [p \in Procs |-> RetInit]
    /\ signalled = <<>>

\* a cursor over no statement: the zero ResultResultSet
NoCursor == [err |-> <<>>, columnList |-> <<>>, columnTypes |-> <<>>, ctx |-> <<>>,
             client |-> <<>>, limit |-> 0, read |-> 0, items |-> <<>>,
             input |-> <<>>, output |-> <<>>]

NextLocalInit == [row |-> <<>>, tmp |-> 0]

\* what the last call on the cursor returned: op the method, row the item Next took, dest
\* the values it stored for the caller, prev the error of the call before
NextRetInit == [returned |-> FALSE, op |-> "", err |-> <<>>, row |-> <<>>, dest |-> <<>>,
                prev |-> <<>>]

\* no query is open
CursorIdle ==
    /\ pages = <<>>
    /\ rs = NoCursor
    /\ mu = <<>>
    /\ requests = <<>>
    /\ contexts = <<>>
    /\ delivered = <<>>
    /\ npc = [p \in Procs |-> "idle"]
    /\ nloc = [p \in Procs |-> NextLocalInit]
    /\ nret = [p \in Procs |-> NextRetInit]

DdlRetInit == [op |-> "", table |-> "", flag |-> FALSE, opts |-> <<>>, before |-> <<>>,
               sent |-> <<>>, remote |-> <<>>, err |-> <<>>, Successful |-> FALSE]

\* no table statement was executed, the remote store has no table
DdlIdle ==
    /\ tables = {}
    /\ ddlRet = DdlRetInit

\* nothing was given to the parser
ParseIdle ==
    /\ query = <<>>
    /\ parsed = <<>>

Init == ConnInit /\ CursorIdle /\ DdlIdle /\ ParseIdle

-----------------------------------------------------------------------------
(* Helpers *)

Finish(p, r) ==
    /\ pc' = [pc EXCEPT ![p] = "idle"]
    /\ local' = [local EXCEPT ![p] = LocalInit]
    /\ ret' = [ret EXCEPT ![p] = r]

Goto(p, label, l) ==
    /\ pc' = [pc EXCEPT ![p] = label]
    /\ local' = [local EXCEPT ![p] = l]
    /\ UNCHANGED ret

\* a plausible slip: the new statement is put in front of the queue
AppendStmt_Prepend(list, ref) == <<ref>> \o list

\* append(c.txStmtList, &txStmt), on the slice value the goroutine loaded
AppendStmt(list, ref) == Append(list, ref)

\* a plausible slip: BeginTx does not look at c.tx
BeginTxCheck_Always == NoErr

\* BeginTx, line 247: a transaction begins only when c.tx is nil
BeginTxCheck == IF tx = <<>> THEN NoErr ELSE ErrInTx

\* a plausible slip: commit does not look at c.tx
CommitCheck_NoTxTest ==
    IF txMode = txRollingBack THEN ErrTxRollingBack
    ELSE IF txMode # txStarted /\ txMode # txCommitting THEN ErrInvalidTxStage
    ELSE NoErr

\* commit, lines 78-86: the error of the state checks, NoErr when they pass
CommitCheck ==
    IF tx = <<>> THEN ErrNoTx
    ELSE IF txMode = txRollingBack THEN ErrTxRollingBack
    ELSE IF txMode # txStarted /\ txMode # txCommitting THEN ErrInvalidTxStage
    ELSE NoErr

\* rollback, lines 133-141
RollbackCheck ==
    IF tx = <<>> THEN ErrNoTx
    ELSE IF txMode = txCommitting THEN ErrTxCommitting
    ELSE IF txMode # txStarted /\ txMode # txRollingBack THEN ErrInvalidTxStage
    ELSE NoErr

\* a plausible slip: the empty queue is not told apart and an empty batch is sent
EmptyTx_Never(list) == FALSE

\* commit, line 94
EmptyTx(list) == Len(list) = 0

\* the connection's transaction fields
TxState == [tx |-> tx, txMode |-> txMode, txStmtList |-> txStmtList]

\* a plausible slip: the reset is not deferred and runs only when the batch succeeded
CommitReset_OnSuccess(err) ==
    IF err = NoErr THEN [tx |-> <<>>, txMode |-> txNone, txStmtList |-> <<>>] ELSE TxState

\* commit, lines 88-92: the deferred reset, whatever commit returns
CommitReset(err) == [tx |-> <<>>, txMode |-> txNone, txStmtList |-> <<>>]

\* a plausible slip: rollback leaves c.tx set
RollbackReset_KeepTx == [tx |-> tx, txMode |-> txNone, txStmtList |-> <<>>]

\* rollback, lines 143-147: the deferred reset
RollbackReset == [tx |-> <<>>, txMode |-> txNone, txStmtList |-> <<>>]

\* index of the first queued statement with a value that does not convert, 0 if none
RECURSIVE FirstBadStmtFrom(_, _)
FirstBadStmtFrom(list, i) ==
    IF i > Len(list) THEN 0
    ELSE IF FirstBad(heap[list[i]][1].values) # 0 THEN i
    ELSE FirstBadStmtFrom(list, i + 1)

\* a plausible slip: every statement is sent with the parameters of the last one
TransactStatements_LastParams(list) ==
    [i \in 1..Len(list) |->
        [Statement |-> heap[list[i]][1].stmt,
         Parameters |-> ParamsOf(heap[list[Len(list)]][1].values)]]

\* txStmts of commit: one ParameterizedStatement per queued statement
TransactStatements(list) ==
    [i \in 1..Len(list) |->
        [Statement |-> heap[list[i]][1].stmt,
         Parameters |-> ParamsOf(heap[list[i]][1].values)]]

\* the outputs the remote executor may return for a batch of n statements
TransactionOutputs(n) ==
    { [ConsumedCapacity |-> [i \in 1..nc |-> <<"CC", i>>],
       Responses |-> [i \in 1..nr |-> IF i \in withItem THEN <<"Item", i>> ELSE <<>>]] :
         <<nc, nr, withItem>> \in
            { t \in (0..n) \X {0, n} \X (SUBSET (1..n)) : t[3] \subseteq 1..t[2] } }

\* a plausible slip: every statement is given the first record and the first item
StmtOutput_First(out, i) ==
    [ConsumedCapacity |-> IF Len(out.ConsumedCapacity) > 0
                          THEN <<out.ConsumedCapacity[1]>> ELSE <<>>,
     Items |-> IF Len(out.Responses) > 0
               THEN <<out.Responses[1]>> ELSE <<>>]

\* a plausible slip: every statement is given all the items of the batch
StmtOutput_AllItems(out, i) ==
    [ConsumedCapacity |-> IF Len(out.ConsumedCapacity) > i - 1
                          THEN <<out.ConsumedCapacity[i]>> ELSE <<>>,
     Items |-> out.Responses]

\* txStmt.output as commit sets it for queue position i
StmtOutput(out, i) ==
    [ConsumedCapacity |-> IF Len(out.ConsumedCapacity) > i - 1
                          THEN <<out.ConsumedCapacity[i]>> ELSE <<>>,
     Items |-> IF Len(out.Responses) > i - 1
               THEN <<out.Responses[i]>> ELSE <<>>]

\* the loop of commit that hands the batch output to the queued statements
Distribute(h, list, out) ==
    [r \in Refs |->
        IF \E i \in 1..Len(list) : list[i] = r
        THEN LET i == CHOOSE k \in 1..Len(list) : list[k] = r
             IN  <<[h[r][1] EXCEPT !.output = <<StmtOutput(out, i)>>]>>
        ELSE h[r]]

\* the references some goroutine still holds: in a handler's locals or in the result
\* closure of the last executeContext of a goroutine other than p
Held(p) ==
    UNION { {local[q].ref} \cup {local[q].snap[i] : i \in 1..Len(local[q].snap)} :
                q \in Procs }
      \cup { ret[q].ref : q \in Procs \ {p} }

\* the txStmt objects left once p begins a transaction: BeginTx replaces the queue, and
\* the caller's result closures of the transaction before are dropped
Collect(p) == [r \in Refs |-> IF r \in Held(p) THEN heap[r] ELSE <<>>]

FreeRefs == { r \in Refs : heap[r] = <<>> }

NewRef == CHOOSE r \in FreeRefs : \A q \in FreeRefs : r <= q

-----------------------------------------------------------------------------
(* Conn.BeginTx *)

BeginTx(p) ==
    /\ pc[p] = "idle"
    /\ lock = <<>>
    /\ IF BeginTxCheck = NoErr
       THEN /\ tx' = <<"Tx">>
            /\ txMode' = txStarted
            /\ txStmtList' = <<>>
            /\ signalled' = <<>>
            /\ heap' = Collect(p)
            /\ Finish(p, Return("BeginTx", NoErr, 0, 0))
       ELSE /\ UNCHANGED <<tx, txMode, txStmtList, signalled, heap>>
            /\ Finish(p, Return("BeginTx", BeginTxCheck, 0, 0))
    /\ UNCHANGED <<lock, numCalls>>
    /\ UNCHANGED <<cursorVars, ddlVars, parseVars>>

-----------------------------------------------------------------------------
(* Conn.executeContext: no lock is taken *)

\* line 157: the first read of c.txMode; the txStmt is allocated when it is txStarted
ExecCheck(p, inputs) ==
    /\ pc[p] = "idle"
    /\ \E in \in inputs :
         IF txMode = txStarted
         THEN /\ FreeRefs # {}
              /\ heap' = [heap EXCEPT ![NewRef] = <<NewTxStmt(in.stmt, in.values)>>]
              /\ Goto(p, "execLoad", [local[p] EXCEPT !.stmt = in.stmt,
                                          !.values = in.values, !.ref = NewRef])
         ELSE /\ UNCHANGED heap
              /\ Goto(p, "execStage", [local[p] EXCEPT !.stmt = in.stmt,
                                           !.values = in.values])
    /\ UNCHANGED <<tx, txMode, txStmtList, lock, numCalls, signalled>>
    /\ UNCHANGED <<cursorVars, ddlVars, parseVars>>

\* line 161, right-hand side: c.txStmtList is loaded
ExecLoad(p) ==
    /\ pc[p] = "execLoad"
    /\ Goto(p, "execStore", [local[p] EXCEPT !.snap = txStmtList])
    /\ UNCHANGED <<tx, txMode, txStmtList, lock, heap, numCalls, signalled>>
    /\ UNCHANGED <<cursorVars, ddlVars, parseVars>>

\* line 161, assignment, and the return of lines 162-164
ExecStore(p) ==
    /\ pc[p] = "execStore"
    /\ txStmtList' = AppendStmt(local[p].snap, local[p].ref)
    /\ signalled' = Append(signalled, [ref |-> local[p].ref, stmt |-> local[p].stmt,
                                        values |-> local[p].values])
    /\ Finish(p, Return("Exec", ErrInTx, local[p].ref, 0))
    /\ UNCHANGED <<tx, txMode, lock, heap, numCalls>>
    /\ UNCHANGED <<cursorVars, ddlVars, parseVars>>

\* line 166: the second read of c.txMode
ExecStage(p) ==
    /\ pc[p] = "execStage"
    /\ IF txMode # txNone
       THEN Finish(p, Return("Exec", ErrInvalidTxStage, 0, 0))
       ELSE Goto(p, "execCall", local[p])
    /\ UNCHANGED <<tx, txMode, txStmtList, lock, heap, numCalls, signalled>>
    /\ UNCHANGED <<cursorVars, ddlVars, parseVars>>

\* lines 174-210: the parameters are converted and the statement is sent
ExecCall(p) ==
    /\ pc[p] = "execCall"
    /\ LET bad == FirstBad(local[p].values) IN
       IF bad # 0
       THEN /\ Finish(p, Return("Exec", <<"error marshalling parameter", bad>>, 0, 0))
            /\ UNCHANGED numCalls
       ELSE /\ numCalls < MaxCalls
            /\ numCalls' = numCalls + 1
            /\ \E err \in {NoErr, RemoteErr} :
                 Finish(p, ReturnSent("Exec", err, 0,
                                      [op |-> "ExecuteStatement",
                                       Statement |-> local[p].stmt,
                                       Parameters |-> ParamsOf(local[p].values)]))
    /\ UNCHANGED <<tx, txMode, txStmtList, lock, heap, signalled>>
    /\ UNCHANGED <<cursorVars, ddlVars, parseVars>>

-----------------------------------------------------------------------------
(* Conn.commit: c.lock is held from CommitEnter to CommitExit *)

\* lines 76-87
CommitEnter(p) ==
    /\ pc[p] = "idle"
    /\ lock = <<>>
    /\ IF CommitCheck # NoErr
       THEN /\ Finish(p, Return("Commit", CommitCheck, 0, 0))
            /\ UNCHANGED <<txMode, lock>>
       ELSE /\ txMode' = txCommitting
            /\ lock' = <<p>>
            /\ Goto(p, "commitCall", local[p])
    /\ UNCHANGED <<tx, txStmtList, heap, numCalls, signalled>>
    /\ UNCHANGED <<cursorVars, ddlVars, parseVars>>

\* lines 94-115: the batch is built from c.txStmtList and sent
CommitCall(p) ==
    /\ pc[p] = "commitCall"
    /\ LET list == txStmtList
           n == Len(list)
           bad == FirstBadStmtFrom(list, 1)
       IN
       IF EmptyTx(list)
       THEN /\ Goto(p, "commitExit", [local[p] EXCEPT !.err = NoErr, !.n = 0])
            /\ UNCHANGED numCalls
       ELSE IF bad # 0
       THEN /\ Goto(p, "commitExit",
                    [local[p] EXCEPT !.n = n,
                        !.err = <<"error marshalling parameter",
                                  FirstBad(heap[list[bad]][1].values),
                                  heap[list[bad]][1].stmt>>])
            /\ UNCHANGED numCalls
       ELSE /\ numCalls < MaxCalls
            /\ numCalls' = numCalls + 1
            /\ LET input == [op |-> "ExecuteTransaction",
                             TransactStatements |-> TransactStatements(list)]
               IN \E err \in {NoErr, RemoteErr} :
                    \E out \in IF err = NoErr THEN TransactionOutputs(n) ELSE {<<>>} :
                      Goto(p, "commitExit",
                           [local[p] EXCEPT !.n = n, !.err = err, !.sent = <<input>>,
                                            !.out = IF err = NoErr THEN <<out>> ELSE <<>>])
    /\ UNCHANGED <<tx, txMode, txStmtList, lock, heap, signalled>>
    /\ UNCHANGED <<cursorVars, ddlVars, parseVars>>

\* lines 116-127, then the deferred reset of lines 88-92 and the unlock
CommitExit(p) ==
    /\ pc[p] = "commitExit"
    /\ heap' = IF local[p].out # <<>>
               THEN Distribute(heap, txStmtList, local[p].out[1])
               ELSE heap
    /\ tx' = CommitReset(local[p].err).tx
    /\ txMode' = CommitReset(local[p].err).txMode
    /\ txStmtList' = CommitReset(local[p].err).txStmtList
    /\ lock' = <<>>
    /\ Finish(p, [Return("Commit", local[p].err, 0, local[p].n)
                      EXCEPT !.sent = local[p].sent])
    /\ UNCHANGED <<numCalls, signalled>>
    /\ UNCHANGED <<cursorVars, ddlVars, parseVars>>

-----------------------------------------------------------------------------
(* Conn.rollback: c.lock is held from RollbackEnter to RollbackExit *)

\* lines 131-142
RollbackEnter(p) ==
    /\ pc[p] = "idle"
    /\ lock = <<>>
    /\ IF RollbackCheck # NoErr
       THEN /\ Finish(p, Return("Rollback", RollbackCheck, 0, 0))
            /\ UNCHANGED <<txMode, lock>>
       ELSE /\ txMode' = txRollingBack
            /\ lock' = <<p>>
            /\ Goto(p, "rollbackExit", local[p])
    /\ UNCHANGED <<tx, txStmtList, heap, numCalls, signalled>>
    /\ UNCHANGED <<cursorVars, ddlVars, parseVars>>

\* lines 143-148: the deferred reset, the unlock and the return
RollbackExit(p) ==
    /\ pc[p] = "rollbackExit"
    /\ tx' = RollbackReset.tx
    /\ txMode' = RollbackReset.txMode
    /\ txStmtList' = RollbackReset.txStmtList
    /\ lock' = <<>>
    /\ Finish(p, Return("Rollback", NoErr, 0, Len(txStmtList)))
    /\ UNCHANGED <<heap, numCalls, signalled>>
    /\ UNCHANGED <<cursorVars, ddlVars, parseVars>>

-----------------------------------------------------------------------------
(* Specifications *)

Step(p, inputs) ==
    \/ BeginTx(p)
    \/ ExecCheck(p, inputs)
    \/ ExecLoad(p)
    \/ ExecStore(p)
    \/ ExecStage(p)
    \/ ExecCall(p)
    \/ CommitEnter(p)
    \/ CommitCall(p)
    \/ CommitExit(p)
    \/ RollbackEnter(p)
    \/ RollbackExit(p)

\* one goroutine uses the connection
Next == Step(Main, Inputs)

Spec == Init /\ [][Next]_vars

ExecStep(p, inputs) ==
    \/ ExecCheck(p, inputs)
    \/ ExecLoad(p)
    \/ ExecStore(p)
    \/ ExecStage(p)
    \/ ExecCall(p)

\* goroutines share the connection: one drives the transaction and executes
\* statements, the others execute statements
NextConc == Step(Main, ConcInputs) \/ \E p \in Procs \ {Main} : ExecStep(p, ConcInputs)

SpecConc == Init /\ [][NextConc]_vars

-----------------------------------------------------------------------------
(* The result cursor: ResultResultSet.Next and fetchNext (stmt.go) *)

\* the most pages a remote source has
MaxPages == 3
\* the most rows of one page
MaxPageRows == 2
\* the largest row limit a statement declares (0: no limit)
MaxLimit == 5

\* io.EOF
EOF == <<"EOF">>
\* a nil pointer dereference ends the goroutine's call
Panic == <<"panic">>

\* the i-th row of the k-th page is <<k, i>>
Page(k, n) == [i \in 1..n |-> <<k, i>>]

PagesOf(sizes) == [k \in 1..Len(sizes) |-> Page(k, sizes[k])]

\* the attribute names of the item <<k, i>>: every item has "id" and "b", the second item
\* of a page has "a", the items of the pages after the first have "c"; <<>> is the nil map
ItemAttrs(row) ==
    IF row = <<>>
    THEN {}
    ELSE {"id", "b"} \cup (IF row[2] = 2 THEN {"a"} ELSE {})
                     \cup (IF row[1] > 1 THEN {"c"} ELSE {})

\* nameFromAttributeValue: the type tag of the value of an attribute of the item
SourceType(row, col) == IF col = "b" /\ row[2] = 1 THEN "N" ELSE "S"

\* rowData[colName], decoded: the value, nil when the item has no such attribute
ItemValue(row, col) ==
    IF col \in ItemAttrs(row) THEN <<[item |-> row, col |-> col]>> ELSE <<>>

\* the attribute names, in the order of sort.Strings
ColumnNames == <<"a", "b", "c", "id">>

\* a plausible slip: the names are left in the order map iteration gave
SortStrings_Unsorted(S) ==
    LET IsIn(c) == c \in S IN SelectSeq(<<"id", "c", "b", "a">>, IsIn)

\* sort.Strings on the names of S
SortStrings(S) == LET IsIn(c) == c \in S IN SelectSeq(ColumnNames, IsIn)

\* context.Context values: nil, the caller's, the one newContext makes
NilContext == <<>>

CallerContext == <<"caller">>

\* newContext: context.WithTimeout(context.Background(), c.timeout)
NewContext == <<"timeout">>

\* ensureContext
EnsureContext(ctx) == IF ctx = NilContext THEN NewContext ELSE ctx

PageSizes == UNION { [1..n -> 0..MaxPageRows] : n \in 1..MaxPages }

\* the remote store's answer to a statement that carries continuation token tok (none: the
\* first page): the page after, with a token unless it is the last
RemoteOutput(ps, tok) ==
    LET k == IF tok = <<>> THEN 1 ELSE tok[1] + 1
    IN [Items |-> ps[k], NextToken |-> IF k < Len(ps) THEN <<k>> ELSE <<>>]

\* client.ExecuteStatement: the answer, or a failure with no output
ExecuteStatement(ps, tok) ==
    { [output |-> <<RemoteOutput(ps, tok)>>, err |-> NoErr],
      [output |-> <<>>, err |-> RemoteErr] }

\* colMap of init: the attribute names of the items
ColMap(items) == UNION { ItemAttrs(items[i]) : i \in 1..Len(items) }

\* lines 301-311 of init: the type of a column is that of its value in the first item that
\* has it; a type set before is kept
ColumnTypesOf(types, items) ==
    [c \in DOMAIN types \cup ColMap(items) |->
        IF c \in DOMAIN types
        THEN types[c]
        ELSE SourceType(items[CHOOSE i \in 1..Len(items) :
                                  /\ c \in ItemAttrs(items[i])
                                  /\ \A j \in 1..(i - 1) : c \notin ItemAttrs(items[j])], c)]

\* a plausible slip: the discovered names replace the list of the statement
ColumnListOf_Overwrite(columnList, items) == SortStrings(ColMap(items))

\* lines 313-323 of init: the list of the statement when it has one, else the sorted names
ColumnListOf(columnList, items) ==
    IF Len(columnList) > 0 THEN columnList ELSE SortStrings(ColMap(items))

\* ResultResultSet.init, lines 283-326, on a cursor that has a statement
InitResultSet(r) ==
    IF r.output = <<>>
    THEN r
    ELSE [r EXCEPT !.items = r.output[1].Items,
                   !.columnTypes = ColumnTypesOf(r.columnTypes, r.output[1].Items),
                   !.columnList = ColumnListOf(r.columnList, r.output[1].Items)]

\* the statement of the closure of executeContext, lines 202-209, in a cursor that has the
\* column list columns, and init() on it; ctx is the context the caller gave
OpenCursorWith(ps, limit, columns, ctx) ==
    InitResultSet([NoCursor EXCEPT !.columnList = columns, !.ctx = ctx,
                                   !.client = <<"client">>, !.limit = limit,
                                   !.output = <<RemoteOutput(ps, <<>>)>>])

\* the cursor over the statement executeContext ran outside a transaction, under the
\* caller's context, for a statement that names no column
OpenCursor(ps, limit) == OpenCursorWith(ps, limit, <<>>, CallerContext)

\* line 365: what Next returns when the cursor holds an error
EarlyErr_Swallowed(r) == NoErr

\* line 365: what Next returns when the cursor holds an error
EarlyErr(r) == r.err

\* line 367
LimitReached_Beyond(r) == r.limit > 0 /\ r.read > r.limit

\* line 367
LimitReached(r) == r.limit > 0 /\ r.read >= r.limit

\* line 371
NeedFetch_Eager(items) == Len(items) <= 1

\* line 371
NeedFetch(items) == Len(items) = 0

\* line 332: the token the continuation request carries
ContinuationToken_Stale(r) == r.input

\* line 332: the token the continuation request carries
ContinuationToken(r) == r.output[1].NextToken

\* line 333: the context of the continuation request
FetchContext(r) == r.ctx

\* lines 380-381
PopRow(items) == [row |-> Head(items), rest |-> Tail(items)]

\* lines 328-338, given the remote's reply: the cursor after fetchNext, err its result
\* a plausible slip: the error of fetchNext is returned but not kept in r.err
FetchNext_ErrNotKept(r, reply) ==
    [r EXCEPT !.input = ContinuationToken(r),
              !.output = reply.output,
              !.items = IF reply.err = NoErr /\ reply.output # <<>>
                        THEN reply.output[1].Items ELSE @,
              !.err = NoErr]

FetchNext(r, reply) ==
    [r EXCEPT !.input = ContinuationToken(r),
              !.output = reply.output,
              !.items = IF reply.err = NoErr /\ reply.output # <<>>
                        THEN reply.output[1].Items ELSE @,
              !.err = reply.err]

\* lines 386-390: the values Next stores for the caller, one per column of the list
DestOf(columnList, row) == [i \in 1..Len(columnList) |-> ItemValue(row, columnList[i])]

NextReturn(p, err, row) ==
    /\ npc' = [npc EXCEPT ![p] = "idle"]
    /\ nloc' = [nloc EXCEPT ![p] = NextLocalInit]
    /\ nret' = [nret EXCEPT ![p] =
                   [returned |-> TRUE, op |-> "Next", err |-> err, row |-> row,
                    dest |-> IF row = <<>> THEN <<>> ELSE DestOf(rs.columnList, row[1]),
                    prev |-> nret[p].err]]

NextGoto(p, label, l) ==
    /\ npc' = [npc EXCEPT ![p] = label]
    /\ nloc' = [nloc EXCEPT ![p] = l]
    /\ UNCHANGED nret

\* lines 364-369, before the lock: a call of Next ("idle"), or its call of itself after a
\* fetch ("again")
NextEnter(p) ==
    /\ npc[p] \in {"idle", "again"}
    /\ IF rs.err # NoErr
       THEN NextReturn(p, EarlyErr(rs), <<>>)
       ELSE IF LimitReached(rs)
            THEN NextReturn(p, EOF, <<>>)
            ELSE NextGoto(p, "lock", nloc[p])
    /\ UNCHANGED <<pages, rs, mu, requests, contexts, delivered>>
    /\ UNCHANGED <<connVars, ddlVars, parseVars>>

\* line 370
NextLock(p) ==
    /\ npc[p] = "lock"
    /\ mu = <<>>
    /\ mu' = <<p>>
    /\ NextGoto(p, "locked", nloc[p])
    /\ UNCHANGED <<pages, rs, requests, contexts, delivered>>
    /\ UNCHANGED <<connVars, ddlVars, parseVars>>

\* lines 371-379 with fetchNext, under the lock: the buffer is empty
NextFetch(p) ==
    /\ npc[p] = "locked"
    /\ NeedFetch(rs.items)
    /\ IF rs.output = <<>>
       THEN \* line 329 dereferences the nil output
            /\ NextReturn(p, Panic, <<>>)
            /\ UNCHANGED <<rs, requests, contexts>>
       ELSE IF rs.output[1].NextToken = <<>>
            THEN /\ rs' = [rs EXCEPT !.err = EOF]
                 /\ NextReturn(p, EOF, <<>>)
                 /\ UNCHANGED <<requests, contexts>>
            ELSE IF rs.client = <<>>
            THEN \* line 333 calls a method of the nil client
                 /\ NextReturn(p, Panic, <<>>)
                 /\ UNCHANGED <<rs, requests, contexts>>
            ELSE \E reply \in ExecuteStatement(pages, ContinuationToken(rs)) :
                    /\ rs' = FetchNext(rs, reply)
                    /\ requests' = Append(requests, ContinuationToken(rs))
                    /\ contexts' = Append(contexts, FetchContext(rs))
                    /\ IF reply.err # NoErr
                       THEN NextReturn(p, reply.err, <<>>)
                       ELSE NextGoto(p, "again", nloc[p])
    /\ mu' = <<>>
    /\ UNCHANGED <<pages, delivered>>
    /\ UNCHANGED <<connVars, ddlVars, parseVars>>

\* lines 380-382, under the lock: the first row leaves the buffer
NextPop(p) ==
    /\ npc[p] = "locked"
    /\ ~NeedFetch(rs.items)
    /\ rs' = [rs EXCEPT !.items = PopRow(rs.items).rest]
    /\ mu' = <<>>
    /\ NextGoto(p, "incr", [nloc[p] EXCEPT !.row = <<PopRow(rs.items).row>>])
    /\ UNCHANGED <<pages, requests, contexts, delivered>>
    /\ UNCHANGED <<connVars, ddlVars, parseVars>>

\* line 384, r.read++ outside the lock: the load
NextLoad(p) ==
    /\ npc[p] = "incr"
    /\ NextGoto(p, "store", [nloc[p] EXCEPT !.tmp = rs.read])
    /\ UNCHANGED <<pages, rs, mu, requests, contexts, delivered>>
    /\ UNCHANGED <<connVars, ddlVars, parseVars>>

\* lines 384-391: the store of r.read++, then the row is returned
NextStore(p) ==
    /\ npc[p] = "store"
    /\ rs' = [rs EXCEPT !.read = nloc[p].tmp + 1]
    /\ delivered' = Append(delivered, nloc[p].row[1])
    /\ NextReturn(p, NoErr, nloc[p].row)
    /\ UNCHANGED <<pages, mu, requests, contexts>>
    /\ UNCHANGED <<connVars, ddlVars, parseVars>>

\* ResultResultSet.Close, lines 358-360
Close(p) ==
    /\ npc[p] = "idle"
    /\ nret' = [nret EXCEPT ![p] = [returned |-> TRUE, op |-> "Close", err |-> rs.err,
                                    row |-> <<>>, dest |-> <<>>, prev |-> nret[p].err]]
    /\ UNCHANGED <<pages, rs, mu, requests, contexts, delivered, npc, nloc>>
    /\ UNCHANGED <<connVars, ddlVars, parseVars>>

NextStep(p) ==
    \/ NextEnter(p)
    \/ NextLock(p)
    \/ NextFetch(p)
    \/ NextPop(p)
    \/ NextLoad(p)
    \/ NextStore(p)

\* a query was run outside a transaction and its cursor is open
CursorOpen(sizes, limits) ==
    /\ ConnInit /\ DdlIdle /\ ParseIdle
    /\ \E z \in sizes : \E l \in limits :
          /\ pages = PagesOf(z)
          /\ rs = OpenCursor(PagesOf(z), l)
    /\ mu = <<>>
    /\ requests = <<>>
    /\ contexts = <<>>
    /\ delivered = <<>>
    /\ npc = [p \in Procs |-> "idle"]
    /\ nloc = [p \in Procs |-> NextLocalInit]
    /\ nret = [p \in Procs |-> NextRetInit]

InitCursor == CursorOpen(PageSizes, 0..MaxLimit)

\* one goroutine reads the cursor
NextCursor == NextStep(Main)

SpecCursor == InitCursor /\ [][NextCursor]_vars

\* the item of the i-th response of a batch, as an item of a cursor: <<0, i>>, or the nil
\* map
TxItems(items) ==
    [j \in 1..Len(items) |-> IF items[j] = <<>> THEN <<>> ELSE <<0, items[j][2]>>]

\* the statement of the closure of executeContext in a transaction, part_001 lines
\* 162-164, once commit has set the output o of its txStmt, in a cursor, and init() on it:
\* the statement has no context, no client, no input and no limit
TxCursor(o) ==
    InitResultSet([NoCursor EXCEPT !.output =
                      <<[Items |-> TxItems(o.Items), NextToken |-> <<>>,
                         ConsumedCapacity |-> o.ConsumedCapacity]>>])

\* a commit of up to MaxStmts statements succeeded, and the cursor of one of them is open
InitTxRows ==
    /\ ConnInit /\ DdlIdle /\ ParseIdle
    /\ pages = <<>>
    /\ \E n \in 1..MaxStmts : \E out \in TransactionOutputs(n) : \E i \in 1..n :
          rs = TxCursor(StmtOutput(out, i))
    /\ mu = <<>>
    /\ requests = <<>>
    /\ contexts = <<>>
    /\ delivered = <<>>
    /\ npc = [p \in Procs |-> "idle"]
    /\ nloc = [p \in Procs |-> NextLocalInit]
    /\ nret = [p \in Procs |-> NextRetInit]

\* one goroutine reads the rows of the statement and closes the cursor
NextTxRows == NextStep(Main) \/ Close(Main)

SpecTxRows == InitTxRows /\ [][NextTxRows]_vars

\* the column lists of the statements: none, or the columns the SELECT names
ColumnLists == { <<>>, <<"id", "a">> }

\* the contexts the callers give
CallerContexts == { NilContext, CallerContext }

\* the limits of the statements of the queries whose rows are read and closed
RowsLimits == {0, 2}

\* executeContext outside a transaction, lines 174-210, and the cursor over its result:
\* the statement, of which query holds the columns it names, was sent under
\* ensureContext(ctx) and answered with the first page
InitRows ==
    /\ ConnInit /\ DdlIdle
    /\ parsed = <<>>
    /\ \E z \in PageSizes, l \in RowsLimits, cols \in ColumnLists, ctx \in CallerContexts :
          /\ query = cols
          /\ pages = PagesOf(z)
          /\ rs = OpenCursorWith(PagesOf(z), l, cols, ctx)
          /\ contexts = <<EnsureContext(ctx)>>
    /\ mu = <<>>
    /\ requests = <<>>
    /\ delivered = <<>>
    /\ npc = [p \in Procs |-> "idle"]
    /\ nloc = [p \in Procs |-> NextLocalInit]
    /\ nret = [p \in Procs |-> NextRetInit]

\* one goroutine reads the rows of the query and closes the cursor
NextRows == NextStep(Main) \/ Close(Main)

SpecRows == InitRows /\ [][NextRows]_vars

\* the sources and limits of the cursor that goroutines share
ConcPageSizes == { <<2, 1>>, <<1, 0, 2>> }

ConcLimits == {0, 1, 2}

InitCursorConc == CursorOpen(ConcPageSizes, ConcLimits)

\* goroutines share the cursor
NextCursorConc == \E p \in Procs : NextStep(p)

SpecCursorConc == InitCursorConc /\ [][NextCursorConc]_vars

-----------------------------------------------------------------------------
(* Query text *)

(* A text is a sequence of tokens: "sp" is a run of blanks, "nl" a line break, ",", "=",  *)
(* ":" and "*" are themselves, every other token is a word of [\w\-]+. A value of a WITH   *)
(* clause is the sequence of its word, ":", "," and "*" tokens; "" is <<>>.                *)

IsSpace(t) == t \in {"sp", "nl"}

IsWord(t) == t \notin {"sp", "nl", ",", "=", ":", "*", "("}

\* the class [\w/\.\*,;:'"-] of the value of a WITH clause
IsValueChar(t) == IsWord(t) \/ t \in {",", ":", "*"}

\* strings.ToUpper, token by token
UpperToken(t) ==
    CASE t = "with" -> "WITH"
      [] t = "lsi" -> "LSI"
      [] t = "pk" -> "PK"
      [] t = "s" -> "S"
      [] t = "n" -> "N"
      [] t = "id" -> "ID"
      [] t = "idx1" -> "IDX1"
      [] t = "idx2" -> "IDX2"
      [] t = "idx3" -> "IDX3"
      [] t = "idx4" -> "IDX4"
      [] t = "f1" -> "F1"
      [] t = "f2" -> "F2"
      [] t = "f3" -> "F3"
      [] t = "a" -> "A"
      [] t = "b" -> "B"
      [] t = "x" -> "X"
      [] t = "list" -> "LIST"
      [] t = "table" -> "TABLE"
      [] t = "create" -> "CREATE"
      [] t = "string" -> "STRING"
      [] OTHER -> t

ToUpper(v) == [i \in 1..Len(v) |-> UpperToken(v[i])]

RECURSIVE TrimLeft(_)
TrimLeft(v) == IF v # <<>> /\ IsSpace(Head(v)) THEN TrimLeft(Tail(v)) ELSE v

RECURSIVE TrimRight(_)
TrimRight(v) ==
    IF v # <<>> /\ IsSpace(v[Len(v)]) THEN TrimRight(SubSeq(v, 1, Len(v) - 1)) ELSE v

\* strings.TrimSpace
TrimSpace(v) == TrimRight(TrimLeft(v))

\* strings.TrimSuffix(v, ",")
TrimSuffixComma(v) ==
    IF v # <<>> /\ v[Len(v)] = "," THEN SubSeq(v, 1, Len(v) - 1) ELSE v

\* the index of the first sep at or after i, or Len(v) + 1
RECURSIVE IndexFrom(_, _, _)
IndexFrom(v, sep, i) ==
    IF i > Len(v) \/ v[i] = sep THEN i ELSE IndexFrom(v, sep, i + 1)

\* strings.SplitN(v, sep, n) for n > 0: at most n parts, the last one unsplit
RECURSIVE SplitN(_, _, _)
SplitN(v, sep, n) ==
    LET i == IndexFrom(v, sep, 1)
    IN IF n <= 1 \/ i > Len(v)
       THEN <<v>>
       ELSE <<SubSeq(v, 1, i - 1)>> \o SplitN(SubSeq(v, i + 1, Len(v)), sep, n - 1)

\* the end of the run of blanks that starts at i: the first index at or after i that
\* holds no blank
RECURSIVE SpaceEnd(_, _)
SpaceEnd(v, i) == IF i <= Len(v) /\ IsSpace(v[i]) THEN SpaceEnd(v, i + 1) ELSE i

\* the end of the longest value that starts at i
RECURSIVE ValueEnd(_, _)
ValueEnd(v, i) == IF i <= Len(v) /\ IsValueChar(v[i]) THEN ValueEnd(v, i + 1) ELSE i

\* (?m)^: the positions where a line starts
LineStarts(v) == {1} \cup { i \in 2..Len(v) + 1 : v[i - 1] = "nl" }

\* (?m)$: the positions after which a line ends
LineEnds(v) == {Len(v)} \cup { i \in 0..Len(v) - 1 : v[i + 1] = "nl" }

-----------------------------------------------------------------------------
(* Stmt.parseWithOpts (stmt.go) *)

\* the most WITH clauses of a fragment, after its partition key clause if it has one
MaxClauses == 2

\* (?i)WITH
IsWith(t) == UpperToken(t) = "WITH"

\* reWithOpts at position i of the fragment: <<>> when it does not match there, else the
\* end of the match with the key and value groups. The separator is a run of blanks, or a
\* comma with blanks on at least one side.
WithMatchAt(v, i) ==
    LET a == SpaceEnd(v, i)
        comma == a <= Len(v) /\ v[a] = ","
        b == IF comma THEN SpaceEnd(v, a + 1) ELSE a
        sep == IF comma THEN a > i \/ b > a + 1 ELSE a > i
        c == SpaceEnd(v, b + 1)
        d == SpaceEnd(v, c + 1)
        e == SpaceEnd(v, d + 1)
        f == ValueEnd(v, e)
    IN IF /\ sep
          /\ b <= Len(v) /\ IsWith(v[b])
          /\ c > b + 1
          /\ c <= Len(v) /\ IsWord(v[c])
          /\ d <= Len(v) /\ v[d] = "="
          /\ f > e
       THEN <<[end |-> f, key |-> <<v[c]>>, value |-> SubSeq(v, e, f - 1)]>>
       ELSE <<>>

\* FindStringSubmatch: the match at the leftmost line start that has one, with its length
WithMatch(v) ==
    LET starts == { i \in LineStarts(v) : WithMatchAt(v, i) # <<>> }
    IN IF starts = {}
       THEN <<>>
       ELSE LET i == CHOOSE j \in starts : \A k \in starts : j <= k
                m == WithMatchAt(v, i)[1]
            IN <<[len |-> m.end - i, key |-> m.key, value |-> m.value]>>

\* line 238: s.withOpts[k] = v alone
AppendOpt_Overwrite(opts, k, v) ==
    IF k \in DOMAIN opts THEN [opts EXCEPT ![k] = <<v>>] ELSE opts @@ (k :> <<v>>)

\* line 238: s.withOpts[k] = append(s.withOpts[k], v)
AppendOpt(opts, k, v) ==
    IF k \in DOMAIN opts THEN [opts EXCEPT ![k] = Append(@, v)] ELSE opts @@ (k :> <<v>>)

\* a plausible slip: the text is cut by the length of the value, len(matches[3])
CutMatch_Value(v, m) == SubSeq(v, Len(m.value) + 1, Len(v))

\* line 239: withOptsStr[len(matches[0]):]
CutMatch(v, m) == SubSeq(v, m.len + 1, Len(v))

\* lines 233-241: the loop, the options so far being opts
RECURSIVE WithOptsLoop(_, _)
WithOptsLoop(v, opts) ==
    LET m == WithMatch(v)
    IN IF m = <<>>
       THEN opts
       ELSE WithOptsLoop(CutMatch(v, m[1]),
                         AppendOpt(opts, TrimSpace(ToUpper(m[1].key))[1],
                                   TrimSuffixComma(TrimSpace(m[1].value))))

\* the empty map: the function of empty domain
NoOpts == [k \in {} |-> <<>>]

\* Stmt.parseWithOpts: the options of the fragment
ParseWithOpts(v) == WithOptsLoop(v, NoOpts)

\* OptStrings.FirstString of opts[k]
FirstString(opts, k) == IF k \in DOMAIN opts /\ opts[k] # <<>> THEN opts[k][1] ELSE <<>>

-----------------------------------------------------------------------------
(* StmtCreateTable.parse (stmt_table.go) *)

\* dataTypes: the type tags of a key or index field
DataTypes == { <<"B">>, <<"N">>, <<"S">>, <<"BINARY">>, <<"NUMBER">>, <<"STRING">> }

\* lines 65-69, 79-83: name:type, split at the first colon
KeyOf(v) ==
    LET t == SplitN(v, ":", 2)
    IN [name |-> TrimSpace(t[1]),
        type |-> IF Len(t) > 1 THEN TrimSpace(ToUpper(t[2])) ELSE <<>>]

\* lines 89-100: index:field:type:projection, split at the first three colons
LsiDefOf(v) ==
    LET t == SplitN(v, ":", 4)
    IN [indexName |-> TrimSpace(t[1]),
        fieldName |-> IF Len(t) > 1 THEN TrimSpace(t[2]) ELSE <<>>,
        fieldType |-> IF Len(t) > 2 THEN TrimSpace(ToUpper(t[3])) ELSE <<>>,
        projectedFields |-> IF Len(t) > 3 THEN TrimSpace(t[4]) ELSE <<>>]

\* lines 88-109: the loop over the LSI values from the i-th on, lsi being s.lsi so far
RECURSIVE LsiLoop(_, _, _)
LsiLoop(list, i, lsi) ==
    IF i > Len(list)
    THEN [err |-> NoErr, errArg |-> <<>>, lsi |-> lsi]
    ELSE LET d == LsiDefOf(list[i])
         IN IF d.indexName # <<>> /\ d.fieldName = <<>>
            THEN [err |-> <<"invalid LSI definition: empty field name">>,
                  errArg |-> d.indexName, lsi |-> lsi]
            ELSE IF d.indexName # <<>> /\ d.fieldType \notin DataTypes
                 THEN [err |-> <<"invalid type of LSI">>, errArg |-> d.fieldType, lsi |-> lsi]
                 ELSE LsiLoop(list, i + 1, Append(lsi, d))

\* strconv.ParseInt(v, 10, 64) on the numerals of the model
ParseInt(v) ==
    CASE v = <<"0">> -> [ok |-> TRUE, n |-> 0]
      [] v = <<"3">> -> [ok |-> TRUE, n |-> 3]
      [] v = <<"4">> -> [ok |-> TRUE, n |-> 4]
      [] v = <<"-3">> -> [ok |-> TRUE, n |-> 0 - 3]
      [] OTHER -> [ok |-> FALSE, n |-> 0]

\* lines 112-118 (RCU) and 120-126 (WCU): the units of option k, 0 when it is absent
Capacity(opts, k) ==
    IF k \notin DOMAIN opts
    THEN [ok |-> TRUE, n |-> 0]
    ELSE LET r == ParseInt(FirstString(opts, k))
         IN IF ~r.ok \/ r.n <= 0 THEN [ok |-> FALSE, n |-> 0] ELSE r

NoCreateTable ==
    [err |-> NoErr, errArg |-> <<>>, pkName |-> <<>>, pkType |-> <<>>, skName |-> <<>>,
     skType |-> <<>>, lsi |-> <<>>, rcu |-> 0, wcu |-> 0]

\* lines 64-128 of parse: the statement's fields from its options, err its result
CreateTableFields(opts) ==
    LET pk == KeyOf(FirstString(opts, "PK"))
        sk == KeyOf(FirstString(opts, "SK"))
        l == LsiLoop(IF "LSI" \in DOMAIN opts THEN opts["LSI"] ELSE <<>>, 1, <<>>)
        rcu == Capacity(opts, "RCU")
        wcu == Capacity(opts, "WCU")
        s1 == [NoCreateTable EXCEPT !.pkName = pk.name, !.pkType = pk.type]
        s2 == [s1 EXCEPT !.skName = sk.name, !.skType = sk.type]
        s3 == [s2 EXCEPT !.lsi = l.lsi]
        s4 == [s3 EXCEPT !.rcu = rcu.n]
    IN IF pk.name = <<>>
       THEN [s1 EXCEPT !.err = <<"no PartitionKey">>]
       ELSE IF pk.type \notin DataTypes
       THEN [s1 EXCEPT !.err = <<"invalid type for PartitionKey">>, !.errArg = pk.type]
       ELSE IF sk.type \notin DataTypes /\ sk.name # <<>>
       THEN [s2 EXCEPT !.err = <<"invalid type SortKey">>, !.errArg = sk.type]
       ELSE IF l.err # NoErr
       THEN [s3 EXCEPT !.err = l.err, !.errArg = l.errArg]
       ELSE IF ~rcu.ok
       THEN [s3 EXCEPT !.err = <<"invalid RCU value">>, !.errArg = FirstString(opts, "RCU")]
       ELSE IF ~wcu.ok
       THEN [s4 EXCEPT !.err = <<"invalid WCU value">>, !.errArg = FirstString(opts, "WCU")]
       ELSE [s4 EXCEPT !.wcu = wcu.n]

\* StmtCreateTable.parse on the WITH fragment of the statement
CreateTableParse(v) == CreateTableFields(ParseWithOpts(v))

-----------------------------------------------------------------------------
(* StmtCreateTable.Exec and StmtDropTable.Exec (stmt_table.go) *)

InUse == <<"ResourceInUseException">>

NotFound == <<"ResourceNotFoundException">>

LimitExceeded == <<"LimitExceededException">>

\* IsAwsError: err is the remote error of that code
IsAwsError(err, code) == err # NoErr /\ err = code

\* lines 167-171: the projection of a local index
ProjectionOf(d) ==
    IF d.projectedFields = <<"*">>
    THEN [ProjectionType |-> "ALL", NonKeyAttributes |-> <<>>]
    ELSE IF d.projectedFields # <<>>
         THEN [ProjectionType |-> "INCLUDE",
               NonKeyAttributes |-> SplitN(d.projectedFields, ",", Len(d.projectedFields) + 1)]
         ELSE [ProjectionType |-> "KEYS_ONLY", NonKeyAttributes |-> <<>>]

\* lines 184-191: on-demand billing, or the provisioned units
BillingOf(rcu, wcu) ==
    IF rcu = 0 /\ wcu = 0
    THEN [BillingMode |-> <<"PAY_PER_REQUEST">>, ProvisionedThroughput |-> <<>>]
    ELSE [BillingMode |-> <<>>,
          ProvisionedThroughput |-> <<[ReadCapacityUnits |-> rcu, WriteCapacityUnits |-> wcu]>>]

\* lines 146-191: the request of the statement
CreateTableInput(name, st) ==
    [TableName |-> name,
     KeySchema |-> <<[name |-> st.pkName, type |-> st.pkType, key |-> "HASH"]>>
                   \o IF st.skName # <<>>
                      THEN <<[name |-> st.skName, type |-> st.skType, key |-> "RANGE"]>>
                      ELSE <<>>,
     LocalSecondaryIndexes |->
        [i \in 1..Len(st.lsi) |->
            [IndexName |-> st.lsi[i].indexName, field |-> st.lsi[i].fieldName,
             type |-> st.lsi[i].fieldType, Projection |-> ProjectionOf(st.lsi[i])]],
     Billing |-> BillingOf(st.rcu, st.wcu)]

\* client.CreateTable: the table exists already, or it is created, or the call fails
CreateTableOutcomes(name) ==
    (IF name \in tables THEN {InUse} ELSE {NoErr}) \cup {NotFound, LimitExceeded}

\* client.DeleteTable: the table is deleted, or there is none, or the call fails
DeleteTableOutcomes(name) ==
    (IF name \in tables THEN {NoErr} ELSE {NotFound}) \cup {InUse, LimitExceeded}

\* lines 194-196: every error is swallowed
MaskCreateErr_Any(ifNotExists, err) == IF ifNotExists THEN NoErr ELSE err

\* lines 194-196
MaskCreateErr(ifNotExists, err) ==
    IF ifNotExists /\ IsAwsError(err, InUse) THEN NoErr ELSE err

\* lines 254-256
MaskDropErr(ifExists, err) ==
    IF ifExists /\ IsAwsError(err, NotFound) THEN NoErr ELSE err

\* what the statement before returned
BeforeOf(r) ==
    IF r.op = ""
    THEN <<>>
    ELSE <<[op |-> r.op, table |-> r.table, flag |-> r.flag, err |-> r.err,
            Successful |-> r.Successful]>>

\* the table names of the statements
TableNames == {"t"}

\* the values of the capacity options of the statements
CapacityValues == { <<"0">>, <<"3">> }

CapacityOption(k, o) == IF o = <<>> THEN NoOpts ELSE (k :> o)

\* the options of the CREATE TABLE statements: a partition key, and RCU and WCU or not
CreateTableOpts ==
    { ("PK" :> << <<"id", ":", "S">> >>) @@ CapacityOption("RCU", r) @@ CapacityOption("WCU", w) :
        r \in {<<>>} \cup { <<v>> : v \in CapacityValues },
        w \in {<<>>} \cup { <<v>> : v \in CapacityValues } }

\* a plausible slip: inside a transaction the statement waits for the commit
SendCreateTable_Deferred(r0, name, ifNotExists, st) ==
    IF txMode = txStarted
    THEN /\ UNCHANGED tables
         /\ ddlRet' = r0 @@ [sent |-> <<>>, remote |-> NoErr, err |-> ErrInTx,
                             Successful |-> FALSE]
    ELSE \E e \in CreateTableOutcomes(name) :
            /\ tables' = IF e = NoErr THEN tables \cup {name} ELSE tables
            /\ ddlRet' = r0 @@ [sent |-> <<CreateTableInput(name, st)>>,
                                remote |-> e,
                                err |-> MaskCreateErr(ifNotExists, e),
                                Successful |-> e = NoErr]

\* lines 145-197, Exec of the prepared statement st: its request is sent and the remote
\* store answers
SendCreateTable(r0, name, ifNotExists, st) ==
    \E e \in CreateTableOutcomes(name) :
        /\ tables' = IF e = NoErr THEN tables \cup {name} ELSE tables
        /\ ddlRet' = r0 @@ [sent |-> <<CreateTableInput(name, st)>>,
                            remote |-> e,
                            err |-> MaskCreateErr(ifNotExists, e),
                            Successful |-> e = NoErr]

\* CREATE TABLE [IF NOT EXISTS] name WITH opts, prepared and executed: the statement is
\* rejected by parse, or its request is sent and the remote store answers
ExecCreateTable ==
    /\ UNCHANGED <<connVars, cursorVars, parseVars>>
    /\ \E name \in TableNames, ifNotExists \in BOOLEAN, opts \in CreateTableOpts :
           LET st == CreateTableFields(opts)
               r0 == [op |-> "CreateTable", table |-> name, flag |-> ifNotExists,
                      opts |-> opts, before |-> BeforeOf(ddlRet)]
           IN IF st.err # NoErr
              THEN /\ ddlRet' = r0 @@ [sent |-> <<>>, remote |-> NoErr, err |-> st.err,
                                       Successful |-> FALSE]
                   /\ UNCHANGED tables
              ELSE SendCreateTable(r0, name, ifNotExists, st)

\* lines 248-257, StmtDropTable.Exec: the request is sent and the remote store answers
SendDropTable(r0, name, ifExists) ==
    \E e \in DeleteTableOutcomes(name) :
        /\ tables' = IF e = NoErr THEN tables \ {name} ELSE tables
        /\ ddlRet' = r0 @@ [sent |-> <<[TableName |-> name]>>, remote |-> e,
                            err |-> MaskDropErr(ifExists, e), Successful |-> e = NoErr]

\* DROP TABLE [IF EXISTS] name, executed
ExecDropTable ==
    /\ UNCHANGED <<connVars, cursorVars, parseVars>>
    /\ \E name \in TableNames, ifExists \in BOOLEAN :
           SendDropTable([op |-> "DropTable", table |-> name, flag |-> ifExists,
                          opts |-> NoOpts, before |-> BeforeOf(ddlRet)],
                         name, ifExists)

NextDDL == ExecCreateTable \/ ExecDropTable

SpecDDL == Init /\ [][NextDDL]_vars

-----------------------------------------------------------------------------
(* Table statements on a connection that runs transactions *)

\* client.ListTables: the names of the tables, or the call fails
ListTablesOutcomes ==
    { [err |-> NoErr, TableNames |-> tables], [err |-> LimitExceeded, TableNames |-> {}] }

\* the options of the CREATE TABLE statement of the goroutine
TxTableOpts == "PK" :> << <<"id", ":", "S">> >>

\* what the result of a table statement records of the connection at the call (history):
\* the transaction mode and the queue
AtCall(op, name, flag, opts) ==
    [op |-> op, table |-> name, flag |-> flag, opts |-> opts, before |-> <<>>,
     mode |-> txMode, queue |-> txStmtList]

\* StmtCreateTable.Exec between two calls of the connection: executeContext is not called
DdlCreateTable(p) ==
    /\ pc[p] = "idle"
    /\ numCalls < MaxCalls
    /\ numCalls' = numCalls + 1
    /\ \E name \in TableNames, ifNotExists \in BOOLEAN :
          SendCreateTable(AtCall("CreateTable", name, ifNotExists, TxTableOpts),
                          name, ifNotExists, CreateTableFields(TxTableOpts))
    /\ UNCHANGED <<tx, txMode, txStmtList, lock, heap, pc, local, ret, signalled>>
    /\ UNCHANGED <<cursorVars, parseVars>>

\* StmtDropTable.Exec between two calls of the connection
DdlDropTable(p) ==
    /\ pc[p] = "idle"
    /\ numCalls < MaxCalls
    /\ numCalls' = numCalls + 1
    /\ \E name \in TableNames, ifExists \in BOOLEAN :
          SendDropTable(AtCall("DropTable", name, ifExists, NoOpts), name, ifExists)
    /\ UNCHANGED <<tx, txMode, txStmtList, lock, heap, pc, local, ret, signalled>>
    /\ UNCHANGED <<cursorVars, parseVars>>

\* StmtListTables.Query between two calls of the connection, lines 301-312
DdlListTables(p) ==
    /\ pc[p] = "idle"
    /\ numCalls < MaxCalls
    /\ numCalls' = numCalls + 1
    /\ \E o \in ListTablesOutcomes :
          ddlRet' = AtCall("ListTables", "", FALSE, NoOpts)
                       @@ [sent |-> <<[ListTables |-> TRUE]>>, remote |-> o.err,
                           err |-> o.err, Successful |-> o.err = NoErr,
                           rows |-> IF o.err = NoErr THEN <<o.TableNames>> ELSE <<>>]
    /\ UNCHANGED tables
    /\ UNCHANGED <<tx, txMode, txStmtList, lock, heap, pc, local, ret, signalled>>
    /\ UNCHANGED <<cursorVars, parseVars>>

\* one goroutine runs transactions and table statements on the connection
NextTxDDL ==
    \/ Step(Main, ConcInputs)
    \/ DdlCreateTable(Main)
    \/ DdlDropTable(Main)
    \/ DdlListTables(Main)

SpecTxDDL == Init /\ [][NextTxDDL]_vars

-----------------------------------------------------------------------------
(* The WITH fragment of a CREATE TABLE statement, parsed *)

\* the separators of the pattern `with` between two clauses: blanks, a comma that ends
\* the value before, a comma between blanks, a line break
Separators == { <<"sp">>, <<",", "sp">>, <<"sp", ",", "sp">>, <<"nl">> }

\* how a clause spells WITH, its key and its equals sign
KeyForms ==
    { [kw |-> "WITH", key |-> "LSI", eq |-> <<"=">>],
      [kw |-> "with", key |-> "lsi", eq |-> <<"sp", "=", "sp">>],
      [kw |-> "WITH", key |-> "X", eq |-> <<"=">>] }

WithValues ==
    { <<"idx1", ":", "f1", ":", "S">>,
      <<"idx2", ":", "f2", ":", "N", ":", "*">>,
      <<"idx3", ":", "f3", ":", "s", ":", "a", ",", "b">> }

Clauses == [sep : Separators, form : KeyForms, value : WithValues]

ClauseText(c) == c.sep \o <<c.form.kw, "sp", c.form.key>> \o c.form.eq \o c.value

RECURSIVE ClausesText(_)
ClausesText(cs) == IF cs = <<>> THEN <<>> ELSE ClauseText(Head(cs)) \o ClausesText(Tail(cs))

PKClauseText == <<"sp", "WITH", "sp", "PK", "=", "id", ":", "S">>

\* the fragment parseQuery hands to parse: " " and the trimmed text of the WITH clauses
FragmentText(q) == (IF q.pk THEN PKClauseText ELSE <<>>) \o ClausesText(q.clauses)

\* the fragments: a partition key clause or none, then clauses; the first clause of a
\* fragment follows one blank
Fragments ==
    { q \in [pk : BOOLEAN, clauses : UNION { [1..n -> Clauses] : n \in 1..MaxClauses }] :
        ~q.pk => q.clauses[1].sep = <<"sp">> }

InitWith ==
    /\ ConnInit /\ CursorIdle /\ DdlIdle
    /\ query \in Fragments
    /\ parsed = <<>>

\* StmtCreateTable.parse on the fragment: the options parseWithOpts stores and the fields
\* of the statement
PrepareCreateTable ==
    /\ parsed = <<>>
    /\ parsed' = <<[opts |-> ParseWithOpts(FragmentText(query)),
                    stmt |-> CreateTableParse(FragmentText(query))]>>
    /\ UNCHANGED query
    /\ UNCHANGED <<connVars, cursorVars, ddlVars>>

NextWith == PrepareCreateTable

SpecWith == InitWith /\ [][NextWith]_vars

-----------------------------------------------------------------------------
(* Stmt.parseWithOpts, one iteration of its loop at a time *)

\* withOptsStr as parseQuery sets it: " " and the trimmed text of the group `with`, which
\* is empty when the statement has no WITH clause
WithOptsStr(q) == IF FragmentText(q) = <<>> THEN <<"sp">> ELSE FragmentText(q)

\* the fragments of the statements, the one with no WITH clause among them
InitWithLoop ==
    /\ ConnInit /\ CursorIdle /\ DdlIdle
    /\ query \in Fragments \cup { [pk |-> FALSE, clauses |-> <<>>] }
    /\ parsed = <<>>

\* line 232: the call starts with an empty map; n counts the iterations (history)
WithOptsEnter ==
    /\ parsed = <<>>
    /\ parsed' = <<[rest |-> WithOptsStr(query), opts |-> NoOpts, n |-> 0,
                    done |-> FALSE, err |-> NoErr]>>
    /\ UNCHANGED query
    /\ UNCHANGED <<connVars, cursorVars, ddlVars>>

\* lines 234-239: the pattern matches, the option is stored and the text is cut
WithOptsIterate ==
    /\ parsed # <<>>
    /\ ~parsed[1].done
    /\ WithMatch(parsed[1].rest) # <<>>
    /\ LET m == WithMatch(parsed[1].rest)[1]
       IN parsed' = <<[parsed[1] EXCEPT
                         !.rest = CutMatch(parsed[1].rest, m),
                         !.opts = AppendOpt(@, TrimSpace(ToUpper(m.key))[1],
                                            TrimSuffixComma(TrimSpace(m.value))),
                         !.n = @ + 1]>>
    /\ UNCHANGED query
    /\ UNCHANGED <<connVars, cursorVars, ddlVars>>

\* lines 235-237 and 241: no match, the loop breaks and the call returns nil
WithOptsBreak ==
    /\ parsed # <<>>
    /\ ~parsed[1].done
    /\ WithMatch(parsed[1].rest) = <<>>
    /\ parsed' = <<[parsed[1] EXCEPT !.done = TRUE, !.err = NoErr]>>
    /\ UNCHANGED query
    /\ UNCHANGED <<connVars, cursorVars, ddlVars>>

NextWithLoop == WithOptsEnter \/ WithOptsIterate \/ WithOptsBreak

SpecWithLoop == InitWithLoop /\ [][NextWithLoop]_vars

-----------------------------------------------------------------------------
(* The keys and the local index of a CREATE TABLE statement, prepared and executed *)

\* the values of the PK option: a type tag, the name of a type, no colon, an unknown
\* tag, two colons
PKValues ==
    { <<"id", ":", "S">>, <<"id", ":", "string">>, <<"id">>, <<"id", ":", "X">>,
      <<"id", ":", "S", ":", "N">> }

\* the values of the SK option, <<>> when the statement has none
SKValues ==
    { <<>>, <<"sk", ":", "N">>, <<"sk">>, <<"sk", ":", "X">>, <<":", "X">> }

\* the values of the LSI option, <<>> when the statement has none
LSIValues ==
    { <<>>, <<"idx1", ":", "f1", ":", "S">>, <<"idx1", ":", "f1", ":", "S", ":", "*">>,
      <<"idx4">>, <<"idx1", ":", "f1">>, <<"idx1", ":", "f1", ":", "X">>,
      <<":", "f1", ":", "X">> }

KeyClause(sep, k, v) ==
    IF v = <<>>
    THEN <<>>
    ELSE <<[sep |-> sep, form |-> [kw |-> "WITH", key |-> k, eq |-> <<"=">>], value |-> v]>>

\* the fragments WITH PK=.. [, WITH SK=..] [, WITH LSI=..]
KeyFragments ==
    { [pk |-> FALSE,
       clauses |-> KeyClause(<<"sp">>, "PK", p) \o KeyClause(<<",", "sp">>, "SK", k)
                   \o KeyClause(<<",", "sp">>, "LSI", l)] :
        p \in PKValues, k \in SKValues, l \in LSIValues }

InitKeys ==
    /\ ConnInit /\ CursorIdle /\ DdlIdle
    /\ query \in KeyFragments
    /\ parsed = <<>>

\* Exec of the statement that parse accepted
ExecPrepared ==
    /\ parsed # <<>>
    /\ parsed[1].stmt.err = NoErr
    /\ ddlRet = DdlRetInit
    /\ UNCHANGED <<connVars, cursorVars, parseVars>>
    /\ \E name \in TableNames, ifNotExists \in BOOLEAN :
           SendCreateTable([op |-> "CreateTable", table |-> name, flag |-> ifNotExists,
                            opts |-> parsed[1].opts, before |-> <<>>],
                           name, ifNotExists, parsed[1].stmt)

NextKeys == PrepareCreateTable \/ ExecPrepared

SpecKeys == InitKeys /\ [][NextKeys]_vars

-----------------------------------------------------------------------------
(* parseQuery (stmt.go): the statement patterns and the dispatch *)

(* A position is the index of the next token to match; 0 is no match. *)

\* the words ws, blanks between them, from position i on (keywords match in any case)
RECURSIVE Lit(_, _, _)
Lit(v, i, ws) ==
    IF i = 0 \/ i > Len(v) \/ UpperToken(v[i]) # Head(ws)
    THEN 0
    ELSE IF Len(ws) = 1
         THEN i + 1
         ELSE LET j == SpaceEnd(v, i + 1)
              IN IF j = i + 1 THEN 0 ELSE Lit(v, j, Tail(ws))

\* \s+
Sp(v, i) ==
    IF i = 0 THEN 0 ELSE LET j == SpaceEnd(v, i) IN IF j > i THEN j ELSE 0

\* \s+ and the words ws
SpLit(v, i, ws) == Lit(v, Sp(v, i), ws)

\* \s+ and field
SpField(v, i) ==
    LET j == Sp(v, i) IN IF j # 0 /\ j <= Len(v) /\ IsWord(v[j]) THEN j + 1 ELSE 0

\* ifNotExists, ifExists: the optional words ws
Opt(v, i, ws) == {i, SpLit(v, i, ws)} \ {0}

\* the clauses after the first one of `with`, from position i on: where they can end
RECURSIVE MoreWithEnds(_, _)
MoreWithEnds(v, i) ==
    LET m == WithMatchAt(v, i)
    IN IF m = <<>> THEN {} ELSE {m[1].end} \cup MoreWithEnds(v, m[1].end)

\* `with`, from position i on: where it can end (it is optional; its first clause follows
\* blanks only)
WithEnds(v, i) ==
    IF i = 0
    THEN {}
    ELSE LET a == SpaceEnd(v, i)
             m == WithMatchAt(v, i)
         IN IF a > i /\ a <= Len(v) /\ IsWith(v[a]) /\ m # <<>>
            THEN {i, m[1].end} \cup MoreWithEnds(v, m[1].end)
            ELSE {i}

\* (?m)$ at one of the positions
AtLineEnd(v, ends) == \E e \in ends : e # 0 /\ (e - 1) \in LineEnds(v)

reCreateTableAt(v, i) ==
    \E q \in Opt(v, Lit(v, i, <<"CREATE", "TABLE">>), <<"IF", "NOT", "EXISTS">>) :
        AtLineEnd(v, WithEnds(v, SpField(v, q)))

reListTablesAt(v, i) ==
    AtLineEnd(v, {Lit(v, i, <<"LIST", "TABLES">>), Lit(v, i, <<"LIST", "TABLE">>)})

reDescribeTableAt(v, i) ==
    AtLineEnd(v, {SpField(v, Lit(v, i, <<"DESCRIBE", "TABLE">>))})

reAlterTableAt(v, i) ==
    AtLineEnd(v, WithEnds(v, SpField(v, Lit(v, i, <<"ALTER", "TABLE">>))))

reDropTableAt(v, i) ==
    \E p \in {Lit(v, i, <<"DROP", "TABLE">>), Lit(v, i, <<"DELETE", "TABLE">>)} :
        \E q \in Opt(v, p, <<"IF", "EXISTS">>) : AtLineEnd(v, {SpField(v, q)})

\* field \s+ ON \s+ field, after position i
FieldOnField(v, i) == SpField(v, SpLit(v, SpField(v, i), <<"ON">>))

reDescribeLSIAt(v, i) ==
    AtLineEnd(v, {FieldOnField(v, Lit(v, i, <<"DESCRIBE", "LSI">>))})

reCreateGSIAt(v, i) ==
    \E q \in Opt(v, Lit(v, i, <<"CREATE", "GSI">>), <<"IF", "NOT", "EXISTS">>) :
        AtLineEnd(v, WithEnds(v, FieldOnField(v, q)))

reDescribeGSIAt(v, i) ==
    AtLineEnd(v, {FieldOnField(v, Lit(v, i, <<"DESCRIBE", "GSI">>))})

reAlterGSIAt(v, i) ==
    AtLineEnd(v, WithEnds(v, FieldOnField(v, Lit(v, i, <<"ALTER", "GSI">>))))

reDropGSIAt(v, i) ==
    \E p \in {Lit(v, i, <<"DROP", "GSI">>), Lit(v, i, <<"DELETE", "GSI">>)} :
        \E q \in Opt(v, p, <<"IF", "EXISTS">>) : AtLineEnd(v, {FieldOnField(v, q)})

reInsertAt(v, i) == Sp(v, Lit(v, i, <<"INSERT", "INTO">>)) # 0

\* .*? ends at the end of a line, which there always is
reSelectAt(v, i) == Sp(v, Lit(v, i, <<"SELECT">>)) # 0

reUpdateAt(v, i) == Sp(v, Lit(v, i, <<"UPDATE">>)) # 0

reDeleteAt(v, i) == Sp(v, Lit(v, i, <<"DELETE", "FROM">>)) # 0

\* the pattern of a statement family, at position i
MatchAt(family, v, i) ==
    CASE family = "CreateTable" -> reCreateTableAt(v, i)
      [] family = "ListTables" -> reListTablesAt(v, i)
      [] family = "DescribeTable" -> reDescribeTableAt(v, i)
      [] family = "AlterTable" -> reAlterTableAt(v, i)
      [] family = "DropTable" -> reDropTableAt(v, i)
      [] family = "DescribeLSI" -> reDescribeLSIAt(v, i)
      [] family = "CreateGSI" -> reCreateGSIAt(v, i)
      [] family = "DescribeGSI" -> reDescribeGSIAt(v, i)
      [] family = "AlterGSI" -> reAlterGSIAt(v, i)
      [] family = "DropGSI" -> reDropGSIAt(v, i)
      [] family = "Insert" -> reInsertAt(v, i)
      [] family = "Select" -> reSelectAt(v, i)
      [] family = "Update" -> reUpdateAt(v, i)
      [] family = "Delete" -> reDeleteAt(v, i)

\* the families, in the order parseQuery tries them
Families ==
    << "CreateTable", "ListTables", "DescribeTable", "AlterTable", "DropTable",
       "DescribeLSI", "CreateGSI", "DescribeGSI", "AlterGSI", "DropGSI",
       "Insert", "Select", "Update", "Delete" >>

\* re.MatchString with (?m)^: the pattern matches at the start of some line
MatchString(family, v) == \E i \in LineStarts(v) : MatchAt(family, v, i)

\* lines 46-193: the first family of the chain whose pattern matches, "" when none does
RECURSIVE FirstMatch(_, _)
FirstMatch(v, n) ==
    IF n > Len(Families)
    THEN ""
    ELSE IF MatchString(Families[n], v) THEN Families[n] ELSE FirstMatch(v, n + 1)

\* parseQuery, up to the statement's own parse: the family of the statement it builds, or
\* the error of line 193 with the trimmed text
ParseQuery(text) ==
    LET q == TrimSpace(text)
        family == FirstMatch(q, 1)
    IN [family |-> family,
        err |-> IF family = "" THEN <<"invalid query">> ELSE NoErr,
        errArg |-> IF family = "" THEN q ELSE <<>>]

\* the most lines of a query text
MaxLines == 2

\* lines of query texts: statements of every family, and texts that are none
QueryLines ==
    { <<"CREATE", "sp", "TABLE", "sp", "t", "sp", "WITH", "sp", "PK", "=", "id", ":", "S">>,
      <<"create", "sp", "table", "sp", "IF", "sp", "NOT", "sp", "EXISTS", "sp", "t", "sp",
        "WITH", "sp", "PK", "=", "id", ":", "S", ",", "sp", "WITH", "sp", "RCU", "=", "3">>,
      <<"CREATE", "sp", "TABLE", "sp", "t">>,
      <<"CREATE", "sp", "TABLE">>,
      <<"LIST", "sp", "TABLES">>,
      <<"list", "sp", "table">>,
      <<"LIST">>,
      <<"DESCRIBE", "sp", "TABLE", "sp", "t">>,
      <<"DESCRIBE", "sp", "TABLE", "sp", "t", "sp", "u">>,
      <<"ALTER", "sp", "TABLE", "sp", "t", "sp", "WITH", "sp", "RCU", "=", "3">>,
      <<"DROP", "sp", "TABLE", "sp", "t">>,
      <<"DELETE", "sp", "TABLE", "sp", "IF", "sp", "EXISTS", "sp", "t">>,
      <<"DROP", "sp", "t">>,
      <<"DESCRIBE", "sp", "LSI", "sp", "i", "sp", "ON", "sp", "t">>,
      <<"CREATE", "sp", "GSI", "sp", "i", "sp", "ON", "sp", "t", "sp",
        "WITH", "sp", "PK", "=", "id", ":", "S">>,
      <<"DESCRIBE", "sp", "GSI", "sp", "i", "sp", "ON", "sp", "t">>,
      <<"ALTER", "sp", "GSI", "sp", "i", "sp", "ON", "sp", "t", "sp",
        "WITH", "sp", "RCU", "=", "3">>,
      <<"DROP", "sp", "GSI", "sp", "IF", "sp", "EXISTS", "sp", "i", "sp", "ON", "sp", "t">>,
      <<"INSERT", "sp", "INTO", "sp", "t", "sp", "(">>,
      <<"INSERT", "sp", "t">>,
      <<"SELECT", "sp", "*", "sp", "FROM", "sp", "t">>,
      <<"UPDATE", "sp", "t", "sp", "SET">>,
      <<"DELETE", "sp", "FROM", "sp", "t", "sp", "WHERE">>,
      <<"FOO", "sp", "t">> }

\* the lines, a line break between two of them
RECURSIVE JoinLines(_)
JoinLines(ls) ==
    IF Len(ls) = 1 THEN ls[1] ELSE ls[1] \o <<"nl">> \o JoinLines(Tail(ls))

\* the query texts: lines, as they are or between blanks
QueryTexts ==
    { JoinLines(ls) : ls \in UNION { [1..n -> QueryLines] : n \in 1..MaxLines } }
    \cup { <<"sp">> \o l \o <<"nl">> : l \in QueryLines }

InitDispatch ==
    /\ ConnInit /\ CursorIdle /\ DdlIdle
    /\ query \in QueryTexts
    /\ parsed = <<>>

\* parseQuery on the text
Dispatch ==
    /\ parsed = <<>>
    /\ parsed' = <<ParseQuery(query)>>
    /\ UNCHANGED query
    /\ UNCHANGED <<connVars, cursorVars, ddlVars>>

NextDispatch == Dispatch

SpecDispatch == InitDispatch /\ [][NextDispatch]_vars

-----------------------------------------------------------------------------
(* Claims *)

\* the references of the txStmt objects whose output has been set
WithOutput(h) == { r \in Refs : h[r] # <<>> /\ h[r][1].output # <<>> }

\* some queued statement of the list has a bound value the codec cannot convert
SomeValueFails(list) ==
    \E i \in 1..Len(list) :
        \E j \in 1..Len(heap[list[i]][1].values) :
            ~Marshallable(heap[list[i]][1].values[j])

\* C1: BeginTx succeeds only when no transaction is open, and then the mode is
\* started and the queue empty; while a transaction is open BeginTx returns ErrInTx
\* and leaves the open transaction, the mode and the queue as they are.
C1_OneOpenTx ==
    [][\A p \in Procs :
        BeginTx(p) =>
            IF tx = <<>>
            THEN /\ ret'[p].err = NoErr
                 /\ tx' # <<>>
                 /\ txMode' = txStarted
                 /\ txStmtList' = <<>>
            ELSE /\ ret'[p].err = ErrInTx
                 /\ tx' = tx
                 /\ txMode' = txMode
                 /\ txStmtList' = txStmtList]_vars

\* C1 witness: BeginTx was refused while a transaction with queued statements is open
C1_Witness ==
    /\ ret[Main].op = "BeginTx"
    /\ ret[Main].err = ErrInTx
    /\ txMode = txStarted
    /\ Len(txStmtList) >= 1

\* C2: an execute that finds the mode started makes no remote call, leaves the
\* queue alone until it appends exactly one entry, the executed (statement, values)
\* pair, at the end of the queue, and returns ErrInTx.
C2_ExecuteQueues ==
    [][\A p \in Procs :
        /\ (ExecCheck(p, Inputs) /\ txMode = txStarted) =>
              /\ numCalls' = numCalls
              /\ txStmtList' = txStmtList
              /\ pc'[p] = "execLoad"
        /\ ExecLoad(p) =>
              /\ numCalls' = numCalls
              /\ txStmtList' = txStmtList
        /\ ExecStore(p) =>
              /\ numCalls' = numCalls
              /\ ret'[p].err = ErrInTx
              /\ ret'[p].sent = <<>>
              /\ Len(txStmtList') = Len(txStmtList) + 1
              /\ SubSeq(txStmtList', 1, Len(txStmtList)) = txStmtList
              /\ heap'[txStmtList'[Len(txStmtList')]] =
                    <<[stmt |-> local[p].stmt, values |-> local[p].values,
                       output |-> <<>>]>>]_vars

\* C2 witness: two executes were queued in a started transaction, with no remote call
C2_Witness ==
    /\ ret[Main].op = "Exec"
    /\ ret[Main].err = ErrInTx
    /\ txMode = txStarted
    /\ Len(txStmtList) = 2
    /\ numCalls = 0

\* C3: the batch request a commit has sent lists the statements that were queued
\* in the transaction, in the order they were queued, each with its own bound
\* values converted in their original order.
C3_BatchInQueueOrder ==
    \A p \in Procs :
        (ret[p].op = "Commit" /\ ret[p].sent # <<>>) =>
            LET ts == ret[p].sent[1].TransactStatements IN
            /\ ret[p].sent[1].op = "ExecuteTransaction"
            /\ Len(ts) = Len(signalled)
            /\ \A i \in 1..Len(ts) :
                 /\ ts[i].Statement = signalled[i].stmt
                 /\ Len(ts[i].Parameters) = Len(signalled[i].values)
                 /\ \A j \in 1..Len(ts[i].Parameters) :
                      ts[i].Parameters[j] = ToAttributeValue(signalled[i].values[j])

\* C3 witness: a commit sent a batch of at least two different statements
C3_Witness ==
    /\ ret[Main].op = "Commit"
    /\ ret[Main].sent # <<>>
    /\ Len(ret[Main].sent[1].TransactStatements) >= 2
    /\ ret[Main].sent[1].TransactStatements[1] # ret[Main].sent[1].TransactStatements[2]

\* C4 as stated: a commit with an empty queue makes no remote call, succeeds and
\* resets the mode; a commit with a non-empty queue makes exactly one remote call.
C4_Original ==
    [][\A p \in Procs :
        /\ CommitCall(p) =>
              IF Len(txStmtList) = 0
              THEN numCalls' = numCalls
              ELSE numCalls' = numCalls + 1
        /\ (CommitEnter(p) \/ CommitExit(p)) => numCalls' = numCalls
        /\ (CommitExit(p) /\ local[p].n = 0) =>
              /\ ret'[p].err = NoErr
              /\ txMode' = txNone]_vars

\* C4 amended: a commit with an empty queue makes no remote call, succeeds and
\* resets the mode; a commit with a non-empty queue makes exactly one remote call,
\* the batch call, when every bound value converts, and none when one does not.
C4_CommitCalls ==
    [][\A p \in Procs :
        /\ CommitCall(p) =>
              IF Len(txStmtList) = 0 \/ SomeValueFails(txStmtList)
              THEN /\ numCalls' = numCalls
                   /\ local'[p].sent = <<>>
              ELSE /\ numCalls' = numCalls + 1
                   /\ local'[p].sent # <<>>
                   /\ local'[p].sent[1].op = "ExecuteTransaction"
        /\ (CommitEnter(p) \/ CommitExit(p)) => numCalls' = numCalls
        /\ (CommitExit(p) /\ local[p].n = 0) =>
              /\ ret'[p].err = NoErr
              /\ ret'[p].sent = <<>>
              /\ txMode' = txNone]_vars

\* C4 witness: a commit of an empty transaction succeeded after an earlier commit
\* of a non-empty one had made the only remote call
C4_Witness ==
    /\ ret[Main].op = "Commit"
    /\ ret[Main].err = NoErr
    /\ ret[Main].n = 0
    /\ txMode = txNone
    /\ numCalls = 1
    /\ WithOutput(heap) = {}

\* C5: when a commit of N queued statements succeeds, exactly the N queued
\* statements have an output; the statement at queue position i holds the i-th
\* capacity record of the batch output (none when the batch has no i-th record) and,
\* when the batch returned an item at position i, that item as its only row.
C5_OutputsByPosition ==
    [][\A p \in Procs :
        (CommitExit(p) /\ local[p].out # <<>>) =>
            LET out == local[p].out[1]
                n == Len(txStmtList)
            IN
            /\ local[p].err = NoErr
            /\ n = local[p].n
            /\ WithOutput(heap') = { txStmtList[i] : i \in 1..n }
            /\ Cardinality(WithOutput(heap')) = n
            /\ \A i \in 1..n :
                 LET o == heap'[txStmtList[i]][1].output[1] IN
                 /\ o.ConsumedCapacity =
                       IF i <= Len(out.ConsumedCapacity)
                       THEN <<out.ConsumedCapacity[i]>> ELSE <<>>
                 /\ (i <= Len(out.Responses) /\ out.Responses[i] # <<>>) =>
                       o.Items = <<out.Responses[i]>>]_vars

\* C5 witness: a commit of two statements succeeded and the second statement holds
\* the second capacity record and the item returned at position 2
C5_Witness ==
    /\ ret[Main].op = "Commit"
    /\ ret[Main].err = NoErr
    /\ ret[Main].n = 2
    /\ Cardinality(WithOutput(heap)) = 2
    /\ \E r \in WithOutput(heap) :
         /\ heap[r][1].output[1].ConsumedCapacity = << <<"CC", 2>> >>
         /\ heap[r][1].output[1].Items = << <<"Item", 2>> >>

\* C6: when a commit of a started transaction returns, with success or with the
\* error of the remote call or of a conversion, no transaction is open, the mode is
\* none and the queue is empty, and a BeginTx that follows it succeeds.
C6_CommitResets ==
    [][\A p \in Procs :
        /\ CommitExit(p) =>
              /\ tx' = <<>>
              /\ txMode' = txNone
              /\ txStmtList' = <<>>
              /\ lock' = <<>>
        /\ (BeginTx(p) /\ ret[p].op = "Commit" /\ ret[p].err # ErrNoTx) =>
              /\ ret'[p].err = NoErr
              /\ txMode' = txStarted]_vars

\* C6 witness: a commit of queued statements has failed at the remote call and the
\* connection is back to no transaction
C6_Witness ==
    /\ ret[Main].op = "Commit"
    /\ ret[Main].err = RemoteErr
    /\ ret[Main].n >= 1
    /\ txMode = txNone
    /\ txStmtList = <<>>

\* C7: a rollback of a started transaction makes no remote call, discards the
\* queue whatever its length, leaves no transaction open and the mode none, and a
\* BeginTx that follows it succeeds.
C7_RollbackDiscards ==
    [][\A p \in Procs :
        /\ RollbackEnter(p) =>
              /\ numCalls' = numCalls
              /\ txStmtList' = txStmtList
        /\ RollbackExit(p) =>
              /\ numCalls' = numCalls
              /\ ret'[p].err = NoErr
              /\ ret'[p].sent = <<>>
              /\ tx' = <<>>
              /\ txMode' = txNone
              /\ txStmtList' = <<>>
              /\ lock' = <<>>
        /\ (BeginTx(p) /\ ret[p].op = "Rollback" /\ ret[p].err = NoErr) =>
              /\ ret'[p].err = NoErr
              /\ txMode' = txStarted]_vars

\* C7 witness: three queued statements were rolled back and no remote call was made
C7_Witness ==
    /\ ret[Main].op = "Rollback"
    /\ ret[Main].err = NoErr
    /\ ret[Main].n = 3
    /\ numCalls = 0
    /\ txMode = txNone
    /\ txStmtList = <<>>

\* C8: commit or rollback while no transaction is open returns ErrNoTx at once,
\* makes no remote call and leaves the open transaction, the mode and the queue
\* unchanged.
C8_NoTxInProgress ==
    [][\A p \in Procs :
        ((CommitEnter(p) \/ RollbackEnter(p)) /\ tx = <<>>) =>
            /\ ret'[p].err = ErrNoTx
            /\ ret'[p].sent = <<>>
            /\ pc'[p] = "idle"
            /\ numCalls' = numCalls
            /\ tx' = tx
            /\ txMode' = txMode
            /\ txStmtList' = txStmtList
            /\ lock' = lock]_vars

\* C8 witness: a commit was refused with ErrNoTx after an earlier transaction ended
C8_Witness ==
    /\ ret[Main].op = "Commit"
    /\ ret[Main].err = ErrNoTx
    /\ txMode = txNone
    /\ numCalls = 1

\* C9: while the mode is committing or rolling-back, no execute appends to the
\* queue and no execute sends a statement to the remote executor.
C9_NoExecuteDuringCommit ==
    [][\A p \in Procs :
        (txMode = txCommitting \/ txMode = txRollingBack) =>
            /\ ~ExecStore(p)
            /\ ~(ExecCall(p) /\ numCalls' # numCalls)]_vars

\* C10: in a started transaction every execute that returned ErrInTx is in the
\* queue exactly once, and the batch a commit sends holds all of them.
C10_NoQueuedEntryLost ==
    /\ txMode = txStarted =>
          \A i \in 1..Len(signalled) :
              Cardinality({ k \in 1..Len(txStmtList) :
                              txStmtList[k] = signalled[i].ref }) = 1
    /\ \A p \in Procs :
          (ret[p].op = "Commit" /\ ret[p].sent # <<>>) =>
              Len(ret[p].sent[1].TransactStatements) = Len(signalled)

-----------------------------------------------------------------------------
(* Claims about the result cursor *)

RECURSIVE AllRowsFrom(_, _)
AllRowsFrom(ps, k) == IF k > Len(ps) THEN <<>> ELSE ps[k] \o AllRowsFrom(ps, k + 1)

\* the rows of the remote source, page after page
AllRows(ps) == AllRowsFrom(ps, 1)

Exhausted(p) == nret[p].returned /\ nret[p].err = EOF

\* C11: with a row limit L > 0 the Next calls of one goroutine deliver at most L rows, and
\* once L rows are delivered a call of Next reports exhaustion, delivers nothing and sends
\* no request to the remote store, whether or not the store has more pages.
C11_LimitBoundsRows ==
    [][ /\ rs.limit > 0 => Len(delivered') <= rs.limit
        /\ ( /\ rs.limit > 0
             /\ Len(delivered) = rs.limit
             /\ npc[Main] = "idle"
             /\ NextEnter(Main) )
           => /\ npc'[Main] = "idle"
              /\ nret'[Main].err = EOF
              /\ nret'[Main].row = <<>>
              /\ requests' = requests
              /\ delivered' = delivered ]_vars

\* the limit is reached while the last response carried a continuation token, and the
\* call after reported exhaustion
C11_Witness ==
    /\ rs.limit > 0
    /\ Len(delivered) = rs.limit
    /\ rs.output # <<>>
    /\ rs.output[1].NextToken # <<>>
    /\ Exhausted(Main)
    /\ nret[Main].prev = NoErr

C12_Scenario == pages = PagesOf(<<2, 2, 2>>) /\ rs.limit = 5

\* C12: a request for a page is sent only by a Next call that finds the buffer empty; with
\* limit 5 over 3 pages of 2 rows, when Next reports exhaustion the first 5 rows were
\* delivered, 3 pages were fetched (the first and two continuations) and the sixth row,
\* the second of the last page, was never delivered.
C12_LazyPaging ==
    [][ /\ requests' # requests
           => /\ rs.items = <<>>
              /\ Len(requests') = Len(requests) + 1
        /\ C12_Scenario => <<3, 2>> \notin { delivered'[j] : j \in 1..Len(delivered') }
        /\ (C12_Scenario /\ Exhausted(Main)')
           => /\ delivered' = SubSeq(AllRows(pages), 1, 5)
              /\ 1 + Len(requests') = 3 ]_vars

C12_Witness ==
    /\ C12_Scenario
    /\ Exhausted(Main)
    /\ Len(delivered) = 5
    /\ requests = << <<1>>, <<2>> >>
    /\ rs.items = << <<3, 2>> >>

\* C13: after a call of Next reported exhaustion, the next call of Next reports exhaustion
\* too, at once: it delivers nothing and sends no request to the remote store.
C13_ExhaustionSticks ==
    [][ (npc[Main] = "idle" /\ Exhausted(Main) /\ NextEnter(Main))
        => /\ npc'[Main] = "idle"
           /\ Exhausted(Main)'
           /\ requests' = requests
           /\ delivered' = delivered
           /\ rs' = rs ]_vars

\* two calls in a row reported exhaustion, the source having run out of pages
C13_Witness ==
    /\ Exhausted(Main)
    /\ nret[Main].prev = EOF
    /\ rs.err = EOF
    /\ rs.limit = 0

\* C14: the rows one goroutine was given are the first rows of the source, in page order
\* then in-page order, none skipped or repeated; the j-th continuation request carries the
\* token of the j-th response; and when Next reports exhaustion every row was delivered,
\* or as many as the limit allows, empty pages included in the source or not.
C14_RowsInOrder ==
    /\ Len(delivered) <= Len(AllRows(pages))
    /\ delivered = SubSeq(AllRows(pages), 1, Len(delivered))
    /\ \A j \in 1..Len(requests) : requests[j] = <<j>>
    /\ Exhausted(Main)
       => Len(delivered) = IF rs.limit > 0 /\ rs.limit < Len(AllRows(pages))
                           THEN rs.limit
                           ELSE Len(AllRows(pages))

\* an empty page with a continuation token lay between two pages with rows
C14_Witness ==
    /\ pages = PagesOf(<<1, 0, 2>>)
    /\ rs.limit = 0
    /\ Exhausted(Main)
    /\ delivered = << <<1, 1>>, <<3, 1>>, <<3, 2>> >>

\* C15: when goroutines share a cursor with row limit L > 0, at most L rows are delivered
\* and, no call being in progress, the read counter is the number of rows delivered.
C15_ReadCounterGuarded ==
    /\ rs.limit > 0 => Len(delivered) <= rs.limit
    /\ (\A p \in Procs : npc[p] = "idle") => rs.read = Len(delivered)

-----------------------------------------------------------------------------
(* Claims about the table statements *)

CreateIfNotExists(r) == r.op = "CreateTable" /\ r.flag

\* the units the statement gives for option k, 0 when it gives none
GivenUnits(k) == IF k \in DOMAIN ddlRet.opts THEN ParseInt(ddlRet.opts[k][1]).n ELSE 0

\* C16: when CREATE TABLE IF NOT EXISTS meets the remote already-exists condition, Exec
\* returns no error and a result whose success flag is true; so the second of two identical
\* consecutive statements reports success like the first.
C16_IfNotExistsReportsSuccess ==
    (CreateIfNotExists(ddlRet) /\ ddlRet.sent # <<>> /\ ddlRet.remote = InUse)
    => /\ ddlRet.err = NoErr
       /\ ddlRet.Successful

\* C17: the error Exec returns is the remote error, except that CREATE TABLE IF NOT EXISTS
\* returns none for already-exists and DROP TABLE IF EXISTS returns none for not-found;
\* every other remote error, and these two without the flag, are returned as they are.
C17_MaskExactlyOne ==
    ddlRet.sent # <<>>
    => ddlRet.err = IF \/ CreateIfNotExists(ddlRet) /\ ddlRet.remote = InUse
                       \/ ddlRet.op = "DropTable" /\ ddlRet.flag /\ ddlRet.remote = NotFound
                    THEN NoErr
                    ELSE ddlRet.remote

\* DROP TABLE IF EXISTS had not-found masked, after CREATE TABLE IF NOT EXISTS was
\* returned another remote error
C17_Witness ==
    /\ ddlRet.op = "DropTable" /\ ddlRet.flag
    /\ ddlRet.remote = NotFound /\ ddlRet.err = NoErr
    /\ ddlRet.before # <<>>
    /\ CreateIfNotExists(ddlRet.before[1])
    /\ ddlRet.before[1].err = LimitExceeded

\* C18: the request of CREATE TABLE asks for on-demand billing when the statement has no
\* RCU and no WCU, and otherwise for provisioned throughput with the units given; a
\* request for provisioned throughput has both units given and positive.
C18_BillingMode ==
    (ddlRet.op = "CreateTable" /\ ddlRet.sent # <<>>)
    => LET b == ddlRet.sent[1].Billing
       IN IF GivenUnits("RCU") = 0 /\ GivenUnits("WCU") = 0
          THEN b.BillingMode = <<"PAY_PER_REQUEST">> /\ b.ProvisionedThroughput = <<>>
          ELSE /\ b.BillingMode = <<>>
               /\ b.ProvisionedThroughput # <<>>
               /\ b.ProvisionedThroughput[1].ReadCapacityUnits = GivenUnits("RCU")
               /\ b.ProvisionedThroughput[1].WriteCapacityUnits = GivenUnits("WCU")
               /\ b.ProvisionedThroughput[1].ReadCapacityUnits > 0
               /\ b.ProvisionedThroughput[1].WriteCapacityUnits > 0

-----------------------------------------------------------------------------
(* Claims about the WITH fragment *)

\* the keys of the fragment's clauses, upper-cased, in declaration order
DeclaredKeys(q) ==
    (IF q.pk THEN <<"PK">> ELSE <<>>)
    \o [i \in 1..Len(q.clauses) |-> UpperToken(q.clauses[i].form.key)]

\* the values of the fragment's clauses, in declaration order
DeclaredValues(q) ==
    (IF q.pk THEN << <<"id", ":", "S">> >> ELSE <<>>)
    \o [i \in 1..Len(q.clauses) |-> q.clauses[i].value]

\* the values declared for key k, in declaration order
RECURSIVE ValuesOfFrom(_, _, _)
ValuesOfFrom(q, k, i) ==
    IF i > Len(DeclaredKeys(q))
    THEN <<>>
    ELSE (IF DeclaredKeys(q)[i] = k THEN <<DeclaredValues(q)[i]>> ELSE <<>>)
         \o ValuesOfFrom(q, k, i + 1)

C20_Example ==
    /\ query.pk
    /\ query.clauses =
          << [sep |-> <<"sp">>, form |-> [kw |-> "WITH", key |-> "LSI", eq |-> <<"=">>],
              value |-> <<"idx1", ":", "f1", ":", "S">>],
             [sep |-> <<",", "sp">>, form |-> [kw |-> "WITH", key |-> "LSI", eq |-> <<"=">>],
              value |-> <<"idx2", ":", "f2", ":", "N", ":", "*">>] >>

\* C20: the options parseWithOpts stores have the upper-cased keys of the clauses, and under
\* each key the values of its clauses in declaration order; a statement that parse accepts
\* has one index definition per LSI value, in that order; and WITH LSI=idx1:f1:S, WITH
\* LSI=idx2:f2:N:* gives idx1 on f1 of type S with no projection, then idx2 on f2 of type
\* N with projection *.
C20_WithAppends ==
    parsed # <<>>
    => /\ DOMAIN parsed[1].opts = { DeclaredKeys(query)[i] : i \in 1..Len(DeclaredKeys(query)) }
       /\ \A k \in DOMAIN parsed[1].opts : parsed[1].opts[k] = ValuesOfFrom(query, k, 1)
       /\ (parsed[1].stmt.err = NoErr /\ "LSI" \in DOMAIN parsed[1].opts)
          => /\ Len(parsed[1].stmt.lsi) = Len(parsed[1].opts["LSI"])
             /\ \A i \in 1..Len(parsed[1].stmt.lsi) :
                   parsed[1].stmt.lsi[i].indexName = <<parsed[1].opts["LSI"][i][1]>>
       /\ C20_Example
          => /\ parsed[1].stmt.err = NoErr
             /\ parsed[1].stmt.lsi =
                   << [indexName |-> <<"idx1">>, fieldName |-> <<"f1">>,
                       fieldType |-> <<"S">>, projectedFields |-> <<>>],
                      [indexName |-> <<"idx2">>, fieldName |-> <<"f2">>,
                       fieldType |-> <<"N">>, projectedFields |-> <<"*">>] >>

C20_Witness ==
    /\ C20_Example
    /\ parsed # <<>>
    /\ Len(parsed[1].opts["LSI"]) = 2
    /\ Len(parsed[1].stmt.lsi) = 2

-----------------------------------------------------------------------------
(* Claims about the dispatch *)

\* the family the leading keywords of the trimmed text name, "" when they name none
KeywordFamily(v) ==
    CASE Lit(v, 1, <<"CREATE", "TABLE">>) # 0 -> "CreateTable"
      [] Lit(v, 1, <<"LIST", "TABLES">>) # 0 \/ Lit(v, 1, <<"LIST", "TABLE">>) # 0 -> "ListTables"
      [] Lit(v, 1, <<"DESCRIBE", "TABLE">>) # 0 -> "DescribeTable"
      [] Lit(v, 1, <<"ALTER", "TABLE">>) # 0 -> "AlterTable"
      [] Lit(v, 1, <<"DROP", "TABLE">>) # 0 \/ Lit(v, 1, <<"DELETE", "TABLE">>) # 0 -> "DropTable"
      [] Lit(v, 1, <<"DESCRIBE", "LSI">>) # 0 -> "DescribeLSI"
      [] Lit(v, 1, <<"CREATE", "GSI">>) # 0 -> "CreateGSI"
      [] Lit(v, 1, <<"DESCRIBE", "GSI">>) # 0 -> "DescribeGSI"
      [] Lit(v, 1, <<"ALTER", "GSI">>) # 0 -> "AlterGSI"
      [] Lit(v, 1, <<"DROP", "GSI">>) # 0 \/ Lit(v, 1, <<"DELETE", "GSI">>) # 0 -> "DropGSI"
      [] Lit(v, 1, <<"INSERT", "INTO">>) # 0 -> "Insert"
      [] Lit(v, 1, <<"SELECT">>) # 0 -> "Select"
      [] Lit(v, 1, <<"UPDATE">>) # 0 -> "Update"
      [] Lit(v, 1, <<"DELETE", "FROM">>) # 0 -> "Delete"
      [] OTHER -> ""

MatchingFamilies(v) == { n \in 1..Len(Families) : MatchString(Families[n], v) }

\* C19: the pattern of at most one family matches a query text; the family dispatch
\* selects is that one, and it is the family the leading keywords of the text name; a text
\* that no pattern matches fails with the invalid-query error that carries the text.
C19_OneFamilyByKeywords ==
    parsed # <<>>
    => LET q == TrimSpace(query)
       IN /\ Cardinality(MatchingFamilies(q)) <= 1
          /\ parsed[1].family # "" => parsed[1].family = KeywordFamily(q)
          /\ MatchingFamilies(q) = {}
             => /\ parsed[1].family = ""
                /\ parsed[1].err = <<"invalid query">>
                /\ parsed[1].errArg = q


\* the type tags that the PK, SK and LSI options of a statement declare
DeclaredTypes(opts) ==
    { KeyOf(FirstString(opts, k)).type : k \in {"PK", "SK"} \cap DOMAIN opts }
    \cup (IF "LSI" \in DOMAIN opts
          THEN { LsiDefOf(opts["LSI"][i]).fieldType : i \in 1..Len(opts["LSI"]) }
          ELSE {})

\* the names of the indexes whose type tag is none of the data types
UntypedIndexes(opts) ==
    IF "LSI" \in DOMAIN opts
    THEN { LsiDefOf(opts["LSI"][i]).indexName :
             i \in { j \in 1..Len(opts["LSI"]) :
                        LsiDefOf(opts["LSI"][j]).fieldType \notin DataTypes } }
    ELSE {}

\* the type tags of the request of a CREATE TABLE statement
RequestTypes(in) ==
    { in.KeySchema[i].type : i \in 1..Len(in.KeySchema) }
    \cup { in.LocalSecondaryIndexes[i].type : i \in 1..Len(in.LocalSecondaryIndexes) }

\* C21: a CREATE TABLE statement whose partition key, sort key or index declares a type
\* that is missing or is none of the data types is rejected when it is prepared, with an
\* error that names the type or the index, and no request with such a type is ever sent.
C21_TypesChecked ==
    /\ parsed # <<>> =>
          (DeclaredTypes(parsed[1].opts) \ DataTypes # {} =>
              /\ parsed[1].stmt.err # NoErr
              /\ parsed[1].stmt.errArg \in
                    (DeclaredTypes(parsed[1].opts) \ DataTypes)
                    \cup UntypedIndexes(parsed[1].opts))
    /\ ddlRet.sent # <<>> => RequestTypes(ddlRet.sent[1]) \subseteq DataTypes

\* some value of the sequence does not convert
SomeFails(values) == \E j \in 1..Len(values) : ~Marshallable(values[j])

\* the ordinal of the first value of the sequence that does not convert
FailingOrdinal(values) ==
    CHOOSE j \in 1..Len(values) :
        ~Marshallable(values[j]) /\ \A k \in 1..(j - 1) : Marshallable(values[k])

\* the values of the first queued statement of the list one of whose values does not
\* convert
FailingValues(list) ==
    heap[list[CHOOSE i \in 1..Len(list) :
                 /\ SomeFails(heap[list[i]][1].values)
                 /\ \A k \in 1..(i - 1) : ~SomeFails(heap[list[k]][1].values)]][1].values

IsMarshalError(err) == err # NoErr /\ err[1] = "error marshalling parameter"

\* C22: when the j-th bound value does not convert, an execute outside a transaction
\* and a commit abort with an error that names j, counted from 1, and make no remote
\* call; after such a commit the mode is none and the queue is empty.
C22_CodecFailureAborts ==
    [][\A p \in Procs :
        /\ (ExecCall(p) /\ SomeFails(local[p].values)) =>
              /\ ret'[p].err = <<"error marshalling parameter",
                                 FailingOrdinal(local[p].values)>>
              /\ ret'[p].sent = <<>>
              /\ numCalls' = numCalls
        /\ (CommitCall(p) /\ SomeValueFails(txStmtList)) =>
              /\ IsMarshalError(local'[p].err)
              /\ local'[p].err[2] = FailingOrdinal(FailingValues(txStmtList))
              /\ local'[p].sent = <<>>
              /\ numCalls' = numCalls
        /\ (CommitExit(p) /\ IsMarshalError(local[p].err)) =>
              /\ ret'[p].err = local[p].err
              /\ ret'[p].sent = <<>>
              /\ numCalls' = numCalls
              /\ txMode' = txNone
              /\ txStmtList' = <<>>]_vars

\* C22 witness: a commit of two queued statements failed on the second value of one of
\* them, without a remote call, and left the mode none and the queue empty
C22_Witness ==
    /\ ret[Main].op = "Commit"
    /\ IsMarshalError(ret[Main].err)
    /\ ret[Main].err[2] = 2
    /\ ret[Main].n >= 2
    /\ ret[Main].sent = <<>>
    /\ numCalls = 0
    /\ txMode = txNone
    /\ txStmtList = <<>>

\* the first page of the source that has an item
FirstNonEmptyPage ==
    pages[CHOOSE k \in 1..Len(pages) :
             pages[k] # <<>> /\ \A j \in 1..(k - 1) : pages[j] = <<>>]

\* the place of an attribute name in the alphabet
Rank(c) == CASE c = "a" -> 1 [] c = "b" -> 2 [] c = "c" -> 3 [] c = "id" -> 4

\* the attribute names of the items of a page
NamesOf(page) == UNION { ItemAttrs(page[i]) : i \in 1..Len(page) }

\* list holds the attribute names of the items of the page, each once, in ascending order
IsSortedUnion(list, page) ==
    /\ { list[i] : i \in 1..Len(list) } = NamesOf(page)
    /\ \A i \in 1..(Len(list) - 1) : Rank(list[i]) < Rank(list[i + 1])

\* C23: when the statement names no column, the column list and the column types of the
\* cursor are those of the first page that has an item, also when that page is not the
\* first one, and a delivered row carries its values for these columns.
C23_ColumnsOfFirstNonEmptyPage ==
    (query = <<>> /\ nret[Main].op = "Next" /\ nret[Main].row # <<>>) =>
        /\ IsSortedUnion(rs.columnList, FirstNonEmptyPage)
        /\ DOMAIN rs.columnTypes = NamesOf(FirstNonEmptyPage)
        /\ Len(nret[Main].dest) = Len(rs.columnList)
        /\ \A i \in 1..Len(rs.columnList) :
              nret[Main].dest[i] = ItemValue(nret[Main].row[1], rs.columnList[i])

\* C24: the column list of the cursor is the list the statement names, in the order given,
\* when it names one, and else the sorted union of the attribute names of the items of the
\* first page; no later page changes it.
C24_ColumnList ==
    IF query # <<>> THEN rs.columnList = query ELSE IsSortedUnion(rs.columnList, pages[1])

\* C24 witness: the statement names its columns, a row of a later page that has another
\* attribute was delivered, and the list is the one the statement names
C24_Witness ==
    /\ query = <<"id", "a">>
    /\ requests # <<>>
    /\ nret[Main].op = "Next"
    /\ nret[Main].row # <<>>
    /\ nret[Main].row[1][1] > 1
    /\ "c" \in ItemAttrs(nret[Main].row[1])
    /\ pages[1] # <<>>
    /\ rs.columnList = <<"id", "a">>
    /\ Len(nret[Main].dest) = 2

\* C25: the cursor over the output a successful commit gave a statement makes no remote
\* call, delivers the items of that output, of which there is at most one, reports
\* exhaustion once they are delivered, and its Next returns a row or exhaustion only.
C25_TxCursorNeverPages ==
    /\ requests = <<>>
    /\ contexts = <<>>
    /\ Len(rs.output[1].Items) <= 1
    /\ Len(delivered) <= Len(rs.output[1].Items)
    /\ \A j \in 1..Len(delivered) : delivered[j] = rs.output[1].Items[j]
    /\ (nret[Main].returned /\ nret[Main].op = "Next") =>
          \/ nret[Main].err = NoErr /\ nret[Main].row # <<>>
          \/ nret[Main].err = EOF /\ delivered = rs.output[1].Items

\* C25 witness: the one item of the statement was delivered and the call after reported
\* exhaustion
C25_Witness ==
    /\ Len(delivered) = 1
    /\ delivered[1] # <<>>
    /\ rs.output[1].ConsumedCapacity # <<>>
    /\ nret[Main].op = "Next"
    /\ nret[Main].err = EOF
    /\ nret[Main].prev = NoErr
    /\ requests = <<>>

\* C26: every remote call of a query (the statement's execution and each fetch of a
\* continuation page) is made under a context that is not nil: the caller's context when
\* one was supplied, the context synthesized from the connection timeout otherwise.
C26_CallsCarryDeadline ==
    \A j \in 1..Len(contexts) :
        /\ contexts[j] # NilContext
        /\ contexts[j] = (IF rs.ctx = NilContext THEN NewContext ELSE rs.ctx)

\* the texts of the clauses of the fragment q, in order
ClauseTexts(q) ==
    (IF q.pk THEN <<PKClauseText>> ELSE <<>>)
        \o [j \in 1..Len(q.clauses) |-> ClauseText(q.clauses[j])]

\* the number of values the options hold
RECURSIVE CountValues(_)
CountValues(opts) ==
    IF DOMAIN opts = {}
    THEN 0
    ELSE LET k == CHOOSE x \in DOMAIN opts : TRUE
         IN Len(opts[k]) + CountValues([x \in DOMAIN opts \ {k} |-> opts[x]])

\* where the k-th clause of the fragment q ends in its text
RECURSIVE ClauseEnd(_, _)
ClauseEnd(q, k) == IF k = 0 THEN 0 ELSE ClauseEnd(q, k - 1) + Len(ClauseTexts(q)[k])

\* C27: parsing a WITH fragment terminates and returns no error: the k-th iteration
\* takes a prefix off the text that holds the k-th clause (and at most the comma after
\* its value), so the text gets shorter with every iteration and there are no more
\* iterations than clauses; the loop stops where no clause is left, with one value stored
\* for each clause it took and the remaining text kept out of the result.
C27_WithLoopTerminates ==
    /\ [][(parsed # <<>> /\ parsed' # <<>> /\ parsed'[1].n # parsed[1].n) =>
            /\ parsed'[1].n = parsed[1].n + 1
            /\ parsed'[1].n <= Len(ClauseTexts(query))
            /\ Len(parsed'[1].rest) < Len(parsed[1].rest)
            /\ parsed'[1].rest = SubSeq(parsed[1].rest,
                                        Len(parsed[1].rest) - Len(parsed'[1].rest) + 1,
                                        Len(parsed[1].rest))
            /\ LET c == Len(WithOptsStr(query)) - Len(parsed'[1].rest)
               IN /\ ClauseEnd(query, parsed'[1].n) <= c
                  /\ c <= ClauseEnd(query, parsed'[1].n) + 1
            /\ ~parsed'[1].done]_vars
    /\ []((parsed # <<>> /\ ~parsed[1].done) =>
            /\ parsed[1].n <= Len(ClauseTexts(query))
            /\ Len(parsed[1].rest) <= Len(WithOptsStr(query)) - parsed[1].n)
    /\ []((parsed # <<>> /\ parsed[1].done) =>
            /\ parsed[1].err = NoErr
            /\ parsed[1].n = Len(ClauseTexts(query))
            /\ CountValues(parsed[1].opts) = parsed[1].n
            /\ parsed[1].rest = (IF parsed[1].n = 0 THEN WithOptsStr(query) ELSE <<>>))

\* C27 witness: the loop took two clauses and more off the text and stopped at its end
C27_Witness ==
    /\ parsed # <<>>
    /\ parsed[1].done
    /\ parsed[1].n > 2
    /\ parsed[1].rest = <<>>
    /\ parsed[1].err = NoErr

\* C28: Close makes no remote call and changes no state of the cursor, two calls of Close
\* in a row return the same, and Close returns an error only when the fetch of a page
\* failed: after the rows are exhausted (empty buffer, no continuation token) it returns
\* none.
C28_CloseReportsFetchErrors ==
    /\ [][(nret'[Main].op = "Close" /\ nret' # nret) =>
            /\ rs' = rs /\ requests' = requests /\ contexts' = contexts
            /\ delivered' = delivered
            /\ (nret[Main].op = "Close" => nret'[Main].err = nret[Main].err)]_vars
    /\ []((nret[Main].returned /\ nret[Main].op = "Close") =>
            /\ nret[Main].err \in {NoErr, RemoteErr}
            /\ (nret[Main].err = RemoteErr => rs.err = RemoteErr)
            /\ (rs.items = <<>> /\ rs.output # <<>> /\ rs.output[1].NextToken = <<>>
                  /\ nret[Main].prev = EOF) => nret[Main].err = NoErr)

\* the table statements
TableOps == {"CreateTable", "DropTable", "ListTables"}

\* C29: a table statement executed while a transaction is started calls the remote store
\* at once and leaves the transaction, its mode and its queue as they are; the calls of
\* the connection (rollback and commit among them) leave the tables and the result of the
\* table statement as they are, and the batch of a commit holds the queued statements
\* only.
C29_TableStatementsNotQueued ==
    /\ [][(ddlRet' # ddlRet /\ txMode = txStarted) =>
            /\ ddlRet'.op \in TableOps
            /\ Len(ddlRet'.sent) = 1
            /\ ddlRet'.err # ErrInTx
            /\ (ddlRet'.op = "CreateTable" /\ ddlRet'.remote = NoErr)
                  => (ddlRet'.table \notin tables /\ ddlRet'.table \in tables')
            /\ (ddlRet'.op = "DropTable" /\ ddlRet'.remote = NoErr)
                  => (ddlRet'.table \in tables /\ ddlRet'.table \notin tables')
            /\ tx' = tx /\ txMode' = txMode /\ txStmtList' = txStmtList
            /\ heap' = heap /\ signalled' = signalled /\ ret' = ret]_vars
    /\ [][(pc' # pc \/ ret' # ret \/ txMode' # txMode \/ txStmtList' # txStmtList) =>
            (tables' = tables /\ ddlRet' = ddlRet)]_vars
    /\ []((ret[Main].op = "Commit" /\ ret[Main].sent # <<>>) =>
            LET batch == ret[Main].sent[1].TransactStatements
            IN /\ Len(batch) = ret[Main].n
               /\ \A j \in 1..Len(batch) :
                     batch[j].Statement \in { in.stmt : in \in ConcInputs })

\* C29 witness: a table was created while a transaction with a queued statement was
\* started, and the rollback of the transaction left the table
C29_Witness ==
    /\ ret[Main].op = "Rollback"
    /\ ret[Main].err = NoErr
    /\ ret[Main].n = 1
    /\ ddlRet.op = "CreateTable"
    /\ ddlRet.mode = txStarted
    /\ Len(ddlRet.queue) = 1
    /\ ddlRet.remote = NoErr
    /\ ddlRet.table \in tables
    /\ txMode = txNone
    /\ txStmtList = <<>>

\* a call of Next returned the error of the remote store
FetchFailed(p) == npc[p] = "idle" /\ nret[p].returned /\ nret[p].err = RemoteErr

\* C30: once the fetch of a continuation page has failed with a remote error, every later
\* call of Next returns that error at once: no request is sent, no row is delivered, and
\* the cursor keeps the error.
C30_RemoteErrorSticks ==
    /\ [][FetchFailed(Main) =>
            /\ FetchFailed(Main)'
            /\ nret'[Main].row = <<>>
            /\ requests' = requests
            /\ delivered' = delivered
            /\ rs' = rs]_vars
    /\ [](FetchFailed(Main) => (rs.err = RemoteErr /\ Len(requests) > 0))

\* C30 witness: a page was delivered, the fetch of the next one failed, and the call of
\* Next after that returned the same error
C30_Witness ==
    /\ FetchFailed(Main)
    /\ nret[Main].prev = RemoteErr
    /\ Len(delivered) > 0
    /\ Len(requests) = 1
    /\ rs.err = RemoteErr

\* the executable family the trimmed text begins with, "" when it begins with none
ExecutableFamily(v) ==
    CASE Lit(v, 1, <<"INSERT", "INTO">>) # 0 -> "Insert"
      [] Lit(v, 1, <<"SELECT">>) # 0 -> "Select"
      [] Lit(v, 1, <<"UPDATE">>) # 0 -> "Update"
      [] Lit(v, 1, <<"DELETE", "FROM">>) # 0 -> "Delete"
      [] OTHER -> ""

\* C31: a query text that begins, once trimmed, with SELECT, INSERT INTO, UPDATE or
\* DELETE FROM is dispatched to that executable family whatever its later lines read, and
\* never as a table or index statement.
C31_LeadingKeywordsDecide ==
    (parsed # <<>> /\ ExecutableFamily(TrimSpace(query)) # "")
        => parsed[1].family = ExecutableFamily(TrimSpace(query))

====
